---------------------------- MODULE Spec2Model ----------------------------
(***************************************************************************)
(* A model of the binary codecs of FO3-Audio-for-FO4: the FUZ container    *)
(* codec (fuz_processor.py), the BA2 builder and reader (ba2_builder.py),  *)
(* the BSA extractor (bsa_extractor.py) and the plugin record writer       *)
(* (plugin_generator.py).  Files are sequences of bytes 0..255; strings    *)
(* are sequences of Unicode code points.                                   *)
(***************************************************************************)
EXTENDS Integers, Sequences, FiniteSets, TLC

(***************************************************************************)
(* Bounds of the model.                                                    *)
(***************************************************************************)
MaxFuzLen == 2
MaxRun == 4
MaxFiles == 2
MaxAdds == 3
MaxSounds == 2
MaxBsaFiles == 2

MaxFuzFiles == 2

MaxHashLen == 3

(***************************************************************************)
(* Binary cursor I/O: struct.pack / struct.unpack, little-endian, and      *)
(* file.read(n), which returns fewer than n bytes at the end of the file.  *)
(***************************************************************************)
Min(a, b) == IF a <= b THEN a ELSE b

Max(a, b) == IF a >= b THEN a ELSE b

U16(n) == <<n % 256, (n \div 256) % 256>>

U32(n) == <<n % 256, (n \div 256) % 256, (n \div 65536) % 256, (n \div 16777216) % 256>>

U64(n) == U32(n) \o <<0, 0, 0, 0>>

\* f.read(n) at cursor pos (0-based); n < 0 reads to the end of the file
Read(f, pos, n) ==
    IF n < 0 THEN SubSeq(f, pos + 1, Len(f))
    ELSE SubSeq(f, pos + 1, Min(pos + n, Len(f)))

ReadAll(f, pos) == SubSeq(f, pos + 1, Len(f))

\* struct.unpack("<H", b)[0] and struct.unpack("<I", b)[0]; defined when Len(b) is 2, 4
UnpackU16(b) == b[1] + 256 * b[2]

UnpackU32(b) == b[1] + 256 * b[2] + 65536 * b[3] + 16777216 * (b[4] % 128)

\* struct.unpack("<Q", b)[0] for values below 2^31
UnpackU64(b) == UnpackU32(SubSeq(b, 1, 4))

RECURSIVE Repeat(_, _)
Repeat(b, n) == IF n <= 0 THEN <<>> ELSE <<b>> \o Repeat(b, n - 1)

RECURSIVE Concat(_)
Concat(ss) == IF ss = <<>> THEN <<>> ELSE Head(ss) \o Concat(Tail(ss))

RECURSIVE SumSeq(_)
SumSeq(ns) == IF ns = <<>> THEN 0 ELSE Head(ns) + SumSeq(Tail(ns))

SeqsUpTo(S, n) == UNION {[1..k -> S] : k \in 0..n}

Range(s) == {s[i] : i \in 1..Len(s)}

\* a file on disk: absent, or present with its bytes
NoFile == [exists |-> FALSE, bytes |-> <<>>]

FileOf(b) == [exists |-> TRUE, bytes |-> b]

(***************************************************************************)
(* Strings: str.lower, str.replace("/", "\\"), str.encode("utf-8") and     *)
(* bytes.decode("utf-8") over the code points the model uses (below        *)
(* U+0800, and the lone surrogate U+D800, which utf-8 refuses).            *)
(***************************************************************************)
Slash == 47
Backslash == 92
Dot == 46
Surrogate == 55296

LowerChar(c) ==
    IF (c >= 65 /\ c <= 90) \/ (c >= 192 /\ c <= 222 /\ c # 215) THEN c + 32 ELSE c

Lower(s) == [i \in 1..Len(s) |-> LowerChar(s[i])]

ToBackslash(s) == [i \in 1..Len(s) |-> IF s[i] = Slash THEN Backslash ELSE s[i]]

ToSlash(s) == [i \in 1..Len(s) |-> IF s[i] = Backslash THEN Slash ELSE s[i]]

Encodable(s) == \A i \in 1..Len(s) : s[i] < 2048

Utf8Char(c) == IF c < 128 THEN <<c>> ELSE <<192 + (c \div 64), 128 + (c % 64)>>

RECURSIVE Utf8Encode(_)
Utf8Encode(s) == IF s = <<>> THEN <<>> ELSE Utf8Char(Head(s)) \o Utf8Encode(Tail(s))

\* bytes.decode("utf-8") of well-formed one- and two-byte sequences
RECURSIVE Utf8Decode(_)
Utf8Decode(b) ==
    IF b = <<>> THEN <<>>
    ELSE IF b[1] < 128 \/ Len(b) < 2 THEN <<b[1]>> \o Utf8Decode(Tail(b))
    ELSE <<(b[1] - 192) * 64 + (b[2] - 128)>> \o Utf8Decode(Tail(Tail(b)))

(***************************************************************************)
(* zlib.  The deflate stream is modelled by a run-length code behind the   *)
(* zlib header byte 0x78: compress is lossless, its output can be shorter, *)
(* equal or longer than its input, and decompress refuses a stream that is *)
(* not well formed (zlib.error).                                           *)
(***************************************************************************)
ZHeader == 120

RECURSIVE RunLen(_, _)
RunLen(d, b) == IF d = <<>> \/ Head(d) # b THEN 0 ELSE 1 + RunLen(Tail(d), b)

RECURSIVE RLE(_)
RLE(d) ==
    IF d = <<>> THEN <<>>
    ELSE LET n == RunLen(d, Head(d))
         IN <<n, Head(d)>> \o RLE(SubSeq(d, n + 1, Len(d)))

ZCompress(d) == <<ZHeader>> \o RLE(d)

RECURSIVE ZWellFormedBody(_)
ZWellFormedBody(c) ==
    IF c = <<>> THEN TRUE
    ELSE Len(c) >= 2 /\ c[1] >= 1 /\ ZWellFormedBody(Tail(Tail(c)))

\* FALSE: zlib.decompress raises zlib.error
ZValid(c) == Len(c) >= 1 /\ c[1] = ZHeader /\ ZWellFormedBody(Tail(c))

RECURSIVE UnRLE(_)
UnRLE(c) == IF Len(c) < 2 THEN <<>> ELSE Repeat(c[2], c[1]) \o UnRLE(Tail(Tail(c)))

ZDecompress(c) == UnRLE(Tail(c))

(***************************************************************************)
(* State.                                                                  *)
(***************************************************************************)
VARIABLES
    fuz_file,       \* the .fuz file on disk
    fuz_in,         \* the audio and lip inputs of the last create_fuz
    fuz_result,     \* what the last read_fuz returned or raised
    fuz_dir,        \* the files under the input directory, in the order rglob yields them
    fuz_dir_out,    \* the files process_directory has written, by path
    fuz_dir_ret,    \* what the last process_directory returned and logged
    platform,       \* the pathlib flavour the program runs under
    compress,       \* BA2Builder.compress
    files,          \* BA2Builder.files
    added,          \* the (archive_path, data) arguments of the add_file calls behind files
    ba2_dir,        \* whether the output file's parent directory has been created
    ba2_file,       \* the archive file build writes
    built_from,     \* the add_file calls (added) behind the last build
    prev_build,     \* the file the last build replaced, when built from the same calls
    ba2_err,        \* what the last BA2Builder / BA2Reader call raised
    builder_call,   \* the last BA2Builder method called
    reader_ok,      \* a BA2Reader over ba2_file has been constructed
    reader_files,   \* BA2Reader.files, a dict in insertion order
    out_dir,        \* the files BA2Reader.extract has written, by path
    extracted,      \* what BA2Reader.extract returned
    extract_call,   \* whether extract has run on the reader, and its filter_pattern
    hash_call,      \* the last direct call of BA2Builder._hash_string: argument and value
    as_esl,         \* PluginGenerator.as_esl
    records,        \* PluginGenerator.records
    next_form_id,   \* PluginGenerator.next_form_id
    calls,          \* the add_* calls made so far: kind, form ID taken, whether it raised
    plugin_file,    \* the file generate writes
    gen_records,    \* PluginGenerator.records as it was at the last generate
    gen_calls,      \* the number of add_* calls made before the last generate
    bsa_in,         \* the folders and files packed into the BSA archive on disk
    bsa_file,       \* the BSA archive on disk
    bsa_out,        \* the files BSAExtractor.extract has written, by path
    bsa_log,        \* the warnings BSAExtractor has logged
    bsa_ret,        \* how the last BSAExtractor.extract call ended
    bsa_list        \* how the last BSAExtractor.list_contents call ended

fuzvars == <<fuz_file, fuz_in, fuz_result, fuz_dir, fuz_dir_out, fuz_dir_ret>>

ba2vars == <<platform, compress, files, added, ba2_dir, ba2_file, built_from, prev_build,
            ba2_err, builder_call, reader_ok, reader_files, out_dir, extracted,
            extract_call, hash_call>>

plgvars == <<as_esl, records, next_form_id, calls, plugin_file, gen_records, gen_calls>>

bsavars == <<bsa_in, bsa_file, bsa_out, bsa_log, bsa_ret, bsa_list>>

vars == <<fuzvars, ba2vars, plgvars, bsavars>>

(***************************************************************************)
(* FUZ codec (fuz_processor.py).                                           *)
(***************************************************************************)
MAGIC_FO3 == <<70, 85, 90, 69>>

MAGIC_FO4 == <<70, 85, 90, 69>>

FuzBytes == {0, 7}

\* lip input: absent (lip_path None or not on disk), or the bytes of the lip file
NoLip == [present |-> FALSE, data |-> <<>>]

LipOf(b) == [present |-> TRUE, data |-> b]

FuzEncodeNoEmptyLipSize(audio, lip) ==
    LET lip_data == IF lip.present THEN lip.data ELSE <<>>
    IN MAGIC_FO4 \o U32(1)
       \o (IF lip_data # <<>> THEN U32(Len(lip_data)) \o lip_data ELSE <<>>)
       \o audio

FuzEncode(audio, lip) ==
    LET lip_data == IF lip.present THEN lip.data ELSE <<>>
    IN MAGIC_FO4 \o U32(1) \o U32(Len(lip_data))
       \o (IF lip_data # <<>> THEN lip_data ELSE <<>>)
       \o audio

\* read_fuz: [err, audio, lip]; lip.present = FALSE is Python's None
FuzDecode(file) ==
    IF ~file.exists THEN [err |-> "FileNotFoundError", audio |-> <<>>, lip |-> NoLip]
    ELSE LET f == file.bytes
             magic == Read(f, 0, 4)
         IN IF magic # MAGIC_FO3
            THEN [err |-> "ValueError", audio |-> <<>>, lip |-> NoLip]
            ELSE IF Len(Read(f, 4, 4)) # 4 \/ Len(Read(f, 8, 4)) # 4
            THEN [err |-> "struct.error", audio |-> <<>>, lip |-> NoLip]
            ELSE LET lip_size == UnpackU32(Read(f, 8, 4))
                     lip_data == IF lip_size > 0 THEN LipOf(Read(f, 12, lip_size))
                                 ELSE NoLip
                     pos == Min(12 + lip_size, Len(f))
                 IN [err |-> "none", audio |-> ReadAll(f, pos), lip |-> lip_data]

NoFuzResult == [err |-> "unread", audio |-> <<>>, lip |-> NoLip]

NotProcessed == [called |-> FALSE, extracted_files |-> <<>>, log |-> <<>>]

FuzInit ==
    /\ fuz_file = NoFile
    /\ fuz_in = [audio |-> <<>>, lip |-> NoLip]
    /\ fuz_result = NoFuzResult
    /\ fuz_dir = <<>>
    /\ fuz_dir_out = {}
    /\ fuz_dir_ret = NotProcessed

FuzIdle ==
    /\ fuz_file = NoFile
    /\ fuz_in = [audio |-> <<>>, lip |-> NoLip]
    /\ fuz_result = NoFuzResult
    /\ fuz_dir = <<>>
    /\ fuz_dir_out = {}
    /\ fuz_dir_ret = NotProcessed

create_fuz(audio, lip) ==
    /\ fuz_file' = FileOf(FuzEncode(audio, lip))
    /\ fuz_in' = [audio |-> audio, lip |-> lip]
    /\ fuz_result' = NoFuzResult
    /\ UNCHANGED <<fuz_dir, fuz_dir_out, fuz_dir_ret, ba2vars, plgvars, bsavars>>

read_fuz ==
    /\ fuz_result' = FuzDecode(fuz_file)
    /\ UNCHANGED <<fuz_file, fuz_in, fuz_dir, fuz_dir_out, fuz_dir_ret, ba2vars, plgvars, bsavars>>

\* ".fuz", ".xwm", ".lip"
SUFFIX_FUZ == <<46, 102, 117, 122>>

SUFFIX_XWM == <<46, 120, 119, 109>>

SUFFIX_LIP == <<46, 108, 105, 112>>

\* input_dir.rglob("*.fuz") over the files of the directory
IsFuzName(name) ==
    Len(name) >= 4 /\ SubSeq(name, Len(name) - 3, Len(name)) = SUFFIX_FUZ

\* relative_path.with_suffix(suffix) for a name that ends in a 4-character suffix
WithSuffix(name, suffix) == SubSeq(name, 1, Len(name) - 4) \o suffix

NothingAfterFailure(fuz_files) == <<>>

\* "except Exception": the error is logged and the loop takes the next file
RestAfterFailure(fuz_files) == Tail(fuz_files)

\* the loop of process_directory over fuz_files, with output_dir = input_dir:
\* [extracted_files, out, log]
RECURSIVE ProcessFiles(_, _)
ProcessFiles(fuz_files, acc) ==
    IF fuz_files = <<>> THEN acc
    ELSE LET fuz_path == Head(fuz_files).name
             r == FuzDecode(FileOf(Head(fuz_files).bytes))
             audio_path == WithSuffix(fuz_path, SUFFIX_XWM)
             with_audio == {e \in acc.out : e.path # audio_path}
                           \cup {[path |-> audio_path, data |-> r.audio]}
             has_lip == r.lip.present /\ r.lip.data # <<>>
             lip_path == WithSuffix(fuz_path, SUFFIX_LIP)
         IN IF r.err # "none"
            THEN ProcessFiles(RestAfterFailure(fuz_files),
                              [acc EXCEPT !.log = Append(@, [level |-> "error",
                                                             path |-> fuz_path])])
            ELSE ProcessFiles(Tail(fuz_files),
                     [extracted_files |-> Append(acc.extracted_files, audio_path),
                      out |-> IF has_lip
                              THEN {e \in with_audio : e.path # lip_path}
                                   \cup {[path |-> lip_path, data |-> r.lip.data]}
                              ELSE with_audio,
                      log |-> IF has_lip THEN acc.log
                              ELSE Append(acc.log, [level |-> "warning",
                                                    path |-> fuz_path])])

\* process_directory(input_dir) with output_dir left to default to input_dir
process_directory ==
    LET r == ProcessFiles(SelectSeq(fuz_dir, LAMBDA e : IsFuzName(e.name)),
                          [extracted_files |-> <<>>, out |-> {}, log |-> <<>>])
    IN /\ fuz_dir_out' = r.out
       /\ fuz_dir_ret' = [called |-> TRUE, extracted_files |-> r.extracted_files,
                          log |-> r.log]
       /\ UNCHANGED <<fuz_file, fuz_in, fuz_result, fuz_dir, ba2vars, plgvars, bsavars>>

(***************************************************************************)
(* pathlib: Path(p).stem, .suffix and str(Path(p).parent) of a relative    *)
(* path p.  Under PureWindowsPath "\" and "/" separate components; under   *)
(* PurePosixPath only "/" does.                                            *)
(***************************************************************************)
Platforms == {"windows", "posix"}

IsSep(c, flavour) == c = Slash \/ (flavour = "windows" /\ c = Backslash)

\* the largest i with s[i] satisfying the test, 0 when there is none
LastSep(s, flavour) ==
    LET I == {i \in 1..Len(s) : IsSep(s[i], flavour)}
    IN IF I = {} THEN 0 ELSE CHOOSE i \in I : \A j \in I : j <= i

LastDot(s) ==
    LET I == {i \in 1..Len(s) : s[i] = Dot}
    IN IF I = {} THEN 0 ELSE CHOOSE i \in I : \A j \in I : j <= i

PathName(p, flavour) == SubSeq(p, LastSep(p, flavour) + 1, Len(p))

\* str(Path(p).parent): "." when p has a single component
PathParent(p, flavour) ==
    LET k == LastSep(p, flavour)
    IN IF k = 0 THEN <<Dot>>
       ELSE [i \in 1..(k - 1) |-> IF IsSep(p[i], flavour)
                                   THEN (IF flavour = "windows" THEN Backslash ELSE Slash)
                                   ELSE p[i]]

\* suffix: from the last dot of the name, unless that dot is first or last
PathSuffix(p, flavour) ==
    LET name == PathName(p, flavour)
        i == LastDot(name)
    IN IF 1 < i /\ i < Len(name) THEN SubSeq(name, i, Len(name)) ELSE <<>>

PathStem(p, flavour) ==
    LET name == PathName(p, flavour)
        i == LastDot(name)
    IN IF 1 < i /\ i < Len(name) THEN SubSeq(name, 1, i - 1) ELSE name

(***************************************************************************)
(* BA2Builder._hash_string.  A 32-bit value is kept as two 16-bit halves   *)
(* [lo, hi], so that the product by 0x01000193 = 2^24 + 0x193 is taken     *)
(* modulo 2^32 exactly.                                                    *)
(***************************************************************************)
FNV_SEED == [lo |-> 40389, hi |-> 33052]

FNV_PRIME_LOW == 403

RECURSIVE BitXor(_, _)
BitXor(a, b) ==
    IF a = 0 THEN b
    ELSE IF b = 0 THEN a
    ELSE ((a + b) % 2) + 2 * BitXor(a \div 2, b \div 2)

\* hash_value ^= char
HashXor(h, char) == [lo |-> BitXor(h.lo, char), hi |-> h.hi]

\* hash_value = (hash_value * 0x01000193) & 0xFFFFFFFF
HashMul(h) ==
    LET low == h.lo * FNV_PRIME_LOW
    IN [lo |-> low % 65536,
        hi |-> (h.hi * FNV_PRIME_LOW + (low \div 65536) + (h.lo % 256) * 256) % 65536]

RECURSIVE HashBytes(_, _)
HashBytes(h, bs) ==
    IF bs = <<>> THEN h ELSE HashBytes(HashMul(HashXor(h, Head(bs))), Tail(bs))

\* the accumulation over the string as given
HashStringAsGiven(s) ==
    IF s = <<>> THEN [lo |-> 0, hi |-> 0]
    ELSE HashBytes(FNV_SEED, Utf8Encode(s))

_hash_string(s) ==
    IF s = <<>> THEN [lo |-> 0, hi |-> 0]
    ELSE HashBytes(FNV_SEED, Utf8Encode(ToBackslash(Lower(s))))

\* struct.pack("<I", h) of a hash value
PackHash(h) == U16(h.lo) \o U16(h.hi)

UnpackHash(b) == [lo |-> UnpackU16(SubSeq(b, 1, 2)), hi |-> UnpackU16(SubSeq(b, 3, 4))]

(***************************************************************************)
(* BA2 builder (ba2_builder.py, BA2Builder).                               *)
(***************************************************************************)
BA2_MAGIC == <<66, 84, 68, 88>>

BA2_VERSION == 1

GNRL == 0

DX10 == 1

GNMF == 2

BA2_PADDING == <<13, 240, 173, 186>>

HEADER_SIZE == 24

RECORD_SIZE == 36

\* ext: suffix[1:].lower().encode("ascii")[:4].ljust(4, b"\x00")
ExtOf(suffix) ==
    LET e == Lower(SubSeq(suffix, 2, Len(suffix)))
        cut == SubSeq(e, 1, Min(4, Len(e)))
    IN cut \o Repeat(0, 4 - Len(cut))

\* the BA2FileRecord add_file appends
NewRecord(archive_path, data, flavour) ==
    LET path == ToBackslash(archive_path)
    IN [name_hash |-> _hash_string(Lower(PathStem(path, flavour))),
        ext |-> ExtOf(PathSuffix(path, flavour)),
        dir_hash |-> _hash_string(Lower(PathParent(path, flavour))),
        flags |-> 0,
        offset |-> 0,
        packed_size |-> 0,
        unpacked_size |-> Len(data),
        data |-> data,
        path |-> path]

\* "only use compression if it actually saves space"
SavesSpaceLoose(compressed, data) == Len(compressed) <= Len(data)

SavesSpace(compressed, data) == Len(compressed) < Len(data)

\* the data block _write_archive stores for a record, and the packed_size it sets
PackedSizeOf(record, comp) ==
    IF comp /\ SavesSpace(ZCompress(record.data), record.data)
    THEN Len(ZCompress(record.data))
    ELSE 0

DataBlock(record, comp) ==
    IF comp /\ SavesSpace(ZCompress(record.data), record.data)
    THEN ZCompress(record.data)
    ELSE record.data

\* the first loop of _write_archive: packed_size and offset of every record
RECURSIVE LayOut(_, _, _)
RECURSIVE LayOutByUnpackedSize(_, _, _)
LayOutByUnpackedSize(recs, comp, current_offset) ==
    IF recs = <<>> THEN <<>>
    ELSE LET record == Head(recs)
             laid == [record EXCEPT !.packed_size = PackedSizeOf(record, comp),
                                    !.offset = current_offset]
         IN <<laid>> \o LayOutByUnpackedSize(Tail(recs), comp,
                                             current_offset + record.unpacked_size)

LayOut(recs, comp, current_offset) ==
    IF recs = <<>> THEN <<>>
    ELSE LET record == Head(recs)
             laid == [record EXCEPT !.packed_size = PackedSizeOf(record, comp),
                                    !.offset = current_offset]
         IN <<laid>> \o LayOut(Tail(recs), comp, current_offset + Len(DataBlock(record, comp)))

\* data placed as if the record table began the file
DataOffsetWithoutHeader(recs) == Len(recs) * RECORD_SIZE

DataOffset(recs) == HEADER_SIZE + Len(recs) * RECORD_SIZE

NameTableOffset(recs, comp) ==
    DataOffset(recs) + SumSeq([i \in 1..Len(recs) |-> Len(DataBlock(recs[i], comp))])

PackRecord(record) ==
    PackHash(record.name_hash) \o record.ext \o PackHash(record.dir_hash)
    \o U32(record.flags) \o U64(record.offset) \o U32(record.packed_size)
    \o U32(record.unpacked_size) \o BA2_PADDING

PackName(record) ==
    LET name_bytes == Utf8Encode(record.path)
    IN U16(Len(name_bytes)) \o name_bytes

ArchiveBytesNamesReversed(recs, comp) ==
    BA2_MAGIC \o U32(BA2_VERSION) \o U32(GNRL) \o U32(Len(recs))
    \o U64(NameTableOffset(recs, comp))
    \o Concat([i \in 1..Len(recs) |-> PackRecord(recs[i])])
    \o Concat([i \in 1..Len(recs) |-> DataBlock(recs[i], comp)])
    \o Concat([i \in 1..Len(recs) |-> PackName(recs[Len(recs) + 1 - i])])

\* the bytes _write_archive writes, recs being the records after the layout loop
ArchiveBytes(recs, comp) ==
    BA2_MAGIC \o U32(BA2_VERSION) \o U32(GNRL) \o U32(Len(recs))
    \o U64(NameTableOffset(recs, comp))
    \o Concat([i \in 1..Len(recs) |-> PackRecord(recs[i])])
    \o Concat([i \in 1..Len(recs) |-> DataBlock(recs[i], comp)])
    \o Concat([i \in 1..Len(recs) |-> PackName(recs[i])])

\* a layout that goes on from the offset the last record already carries
WriteArchiveOffsetsCarriedOver(recs, comp) ==
    ArchiveBytes(LayOut(recs, comp, DataOffset(recs) + recs[Len(recs)].offset), comp)

_write_archive(recs, comp) == ArchiveBytes(LayOut(recs, comp, DataOffset(recs)), comp)

(***************************************************************************)
(* BA2 reader (ba2_builder.py, BA2Reader).                                 *)
(***************************************************************************)
\* the k-th (0-based) 36-byte record of the record table
ParseRecord(f, k) ==
    LET at == HEADER_SIZE + k * RECORD_SIZE
    IN [name_hash |-> UnpackHash(Read(f, at, 4)),
        ext |-> Read(f, at + 4, 4),
        dir_hash |-> UnpackHash(Read(f, at + 8, 4)),
        flags |-> UnpackU32(Read(f, at + 12, 4)),
        offset |-> UnpackU64(Read(f, at + 16, 8)),
        packed_size |-> UnpackU32(Read(f, at + 24, 4)),
        unpacked_size |-> UnpackU32(Read(f, at + 28, 4)),
        data |-> <<>>,
        path |-> <<>>]

\* dict assignment d[key] = value: an existing key keeps its place
DictSet(d, key, value) ==
    IF \E i \in 1..Len(d) : d[i].key = key
    THEN [i \in 1..Len(d) |-> IF d[i].key = key THEN [key |-> key, rec |-> value] ELSE d[i]]
    ELSE Append(d, [key |-> key, rec |-> value])

\* the name-table loop of _parse: [ok, dict]
RECURSIVE ParseNames(_, _, _, _)
RECURSIVE ParseNamesKeyedAsStored(_, _, _, _)
ParseNamesKeyedAsStored(f, pos, recs, d) ==
    IF recs = <<>> THEN [ok |-> TRUE, dict |-> d]
    ELSE IF Len(Read(f, pos, 2)) # 2 THEN [ok |-> FALSE, dict |-> d]
    ELSE LET name_len == UnpackU16(Read(f, pos, 2))
             path == Utf8Decode(Read(f, pos + 2, name_len))
             record == [Head(recs) EXCEPT !.path = path]
         IN ParseNamesKeyedAsStored(f, pos + 2 + name_len, Tail(recs),
                                    DictSet(d, path, record))

ParseNames(f, pos, recs, d) ==
    IF recs = <<>> THEN [ok |-> TRUE, dict |-> d]
    ELSE IF Len(Read(f, pos, 2)) # 2 THEN [ok |-> FALSE, dict |-> d]
    ELSE LET name_len == UnpackU16(Read(f, pos, 2))
             path == Utf8Decode(Read(f, pos + 2, name_len))
             record == [Head(recs) EXCEPT !.path = path]
         IN ParseNames(f, pos + 2 + name_len, Tail(recs), DictSet(d, Lower(path), record))

\* BA2Reader._parse: [err, dict]
_parse(file) ==
    IF ~file.exists THEN [err |-> "FileNotFoundError", dict |-> <<>>]
    ELSE LET f == file.bytes
         IN IF Read(f, 0, 4) # BA2_MAGIC
            THEN [err |-> "ValueError: Invalid BA2 file", dict |-> <<>>]
            ELSE IF Len(f) < HEADER_SIZE THEN [err |-> "struct.error", dict |-> <<>>]
            ELSE IF UnpackU32(Read(f, 8, 4)) \notin {GNRL, DX10, GNMF}
            THEN [err |-> "ValueError: not a valid BA2Type", dict |-> <<>>]
            ELSE LET file_count == UnpackU32(Read(f, 12, 4))
                     name_table_offset == UnpackU64(Read(f, 16, 8))
                 IN IF Len(f) < HEADER_SIZE + file_count * RECORD_SIZE
                    THEN [err |-> "struct.error", dict |-> <<>>]
                    ELSE LET parsed == [k \in 1..file_count |-> ParseRecord(f, k - 1)]
                             named == ParseNames(f, name_table_offset, parsed, <<>>)
                         IN [err |-> IF named.ok THEN "none" ELSE "struct.error",
                             dict |-> named.dict]

\* writing a file into the output directory: the last write to a path wins
WriteOut(dir, path, data) ==
    {e \in dir : e.path # path} \cup {[path |-> path, data |-> data]}

\* Path(path).match(filter_pattern) for a pattern "*<suffix>"; NoFilter is None
NoFilter == [set |-> FALSE, suffix |-> <<>>]

FilterOf(suffix) == [set |-> TRUE, suffix |-> suffix]

EndsWith(s, suffix) ==
    Len(suffix) <= Len(s) /\ SubSeq(s, Len(s) - Len(suffix) + 1, Len(s)) = suffix

Matches(path, filter, flavour) ==
    EndsWith(IF flavour = "windows" THEN Lower(PathName(path, flavour))
             ELSE PathName(path, flavour),
             IF flavour = "windows" THEN Lower(filter.suffix) ELSE filter.suffix)

\* the loop of BA2Reader.extract over self.files.items(): [err, dir, extracted]
RECURSIVE ExtractLoop(_, _, _, _, _, _)
ExtractLoop(f, items, filter, flavour, dir, count) ==
    IF items = <<>> THEN [err |-> "none", dir |-> dir, extracted |-> count]
    ELSE LET record == Head(items).rec
         IN IF filter.set /\ ~Matches(Head(items).key, filter, flavour)
            THEN ExtractLoop(f, Tail(items), filter, flavour, dir, count)
            ELSE IF record.packed_size > 0
                    /\ ~ZValid(Read(f, record.offset, record.packed_size))
            THEN [err |-> "zlib.error", dir |-> dir, extracted |-> count]
            ELSE LET data == IF record.packed_size > 0
                             THEN ZDecompress(Read(f, record.offset, record.packed_size))
                             ELSE Read(f, record.offset, record.unpacked_size)
                 IN ExtractLoop(f, Tail(items), filter, flavour,
                                WriteOut(dir, record.path, data), count + 1)

(***************************************************************************)
(* The BA2 builder and reader as a state machine.                          *)
(***************************************************************************)
\* "D/a.w", "d\A.w" (the same archive path up to case and separator), "é.W"
ArchivePaths == {<<68, 47, 97, 46, 119>>, <<100, 92, 65, 46, 119>>, <<233, 46, 87>>}

\* the contents of the source files on disk: empty, incompressible, and runs
\* whose compressed form is as long as (MaxRun - 1 = 3) or shorter than the run
SourceData == {Repeat(7, n) : n \in {0, MaxRun - 1, MaxRun}} \cup {<<7, 8>>}

\* filter_pattern arguments: None, "*.w"
Filters == {NoFilter, FilterOf(<<46, 119>>)}

NoBuild == [exists |-> FALSE, bytes |-> <<>>, from |-> <<>>]

NotExtracted == [done |-> FALSE, filter |-> NoFilter]

\* raise ValueError("No files added to archive")
EmptyArchiveError == "ValueError: No files added to archive"

NotHashed == [called |-> FALSE, s |-> <<>>, value |-> [lo |-> 0, hi |-> 0]]

BA2Init ==
    /\ platform \in Platforms
    /\ compress \in BOOLEAN
    /\ files = <<>>
    /\ added = <<>>
    /\ ba2_dir = FALSE
    /\ ba2_file = NoFile
    /\ built_from = <<>>
    /\ prev_build = NoBuild
    /\ ba2_err = "none"
    /\ builder_call = "__init__"
    /\ reader_ok = FALSE
    /\ reader_files = <<>>
    /\ out_dir = {}
    /\ extracted = 0
    /\ extract_call = NotExtracted
    /\ hash_call = NotHashed

BA2Idle ==
    /\ platform = "windows"
    /\ compress = FALSE
    /\ files = <<>>
    /\ added = <<>>
    /\ ba2_dir = FALSE
    /\ ba2_file = NoFile
    /\ built_from = <<>>
    /\ prev_build = NoBuild
    /\ ba2_err = "none"
    /\ builder_call = "__init__"
    /\ reader_ok = FALSE
    /\ reader_files = <<>>
    /\ out_dir = {}
    /\ extracted = 0
    /\ extract_call = NotExtracted
    /\ hash_call = NotHashed

\* add_file(file_path, archive_path) with file_path on disk, holding data
add_file(archive_path, data) ==
    /\ Len(files) < MaxFiles
    /\ files' = Append(files, NewRecord(archive_path, data, platform))
    /\ added' = Append(added, [path |-> archive_path, data |-> data])
    /\ ba2_err' = "none"
    /\ builder_call' = "add_file"
    /\ UNCHANGED <<platform, compress, ba2_dir, ba2_file, built_from, prev_build,
                   reader_ok, reader_files, out_dir, extracted, extract_call, hash_call, fuzvars,
                   plgvars, bsavars>>

\* builder._hash_string(s), called on a builder that holds no entries
call_hash_string(s) ==
    /\ files = <<>>
    /\ hash_call' = [called |-> TRUE, s |-> s, value |-> _hash_string(s)]
    /\ UNCHANGED <<platform, compress, files, added, ba2_dir, ba2_file, built_from,
                   prev_build, ba2_err, builder_call, reader_ok, reader_files, out_dir,
                   extracted, extract_call, fuzvars, plgvars, bsavars>>

\* a missing source file noticed only after a record has been appended
AddFileMissingAfterAppend ==
    /\ Len(files) < MaxFiles
    /\ files' = Append(files, NewRecord(<<>>, <<>>, platform))
    /\ ba2_err' = "FileNotFoundError"
    /\ builder_call' = "add_file"
    /\ UNCHANGED <<platform, compress, added, ba2_dir, ba2_file, built_from,
                   prev_build, reader_ok, reader_files, out_dir, extracted, extract_call,
                   hash_call, fuzvars, plgvars, bsavars>>

\* add_file(file_path, archive_path) with no file at file_path
add_file_missing ==
    /\ ba2_err' = "FileNotFoundError"
    /\ builder_call' = "add_file"
    /\ UNCHANGED <<platform, compress, files, added, ba2_dir, ba2_file, built_from,
                   prev_build, reader_ok, reader_files, out_dir, extracted, extract_call,
                   hash_call, fuzvars, plgvars, bsavars>>

build_unguarded ==
    /\ ~reader_ok
    /\ ba2_dir' = TRUE
    /\ files' = LayOut(files, compress, DataOffset(files))
    /\ ba2_file' = FileOf(_write_archive(files, compress))
    /\ built_from' = added
    /\ prev_build' = NoBuild
    /\ ba2_err' = "none"
    /\ builder_call' = "build"
    /\ UNCHANGED <<platform, compress, added, reader_ok, reader_files, out_dir,
                   extracted, extract_call, hash_call, fuzvars,
                   plgvars, bsavars>>

\* build(output_path); no reader is open on the output file
build ==
    /\ ~reader_ok
    /\ IF files = <<>>
       THEN /\ ba2_err' = EmptyArchiveError
            /\ UNCHANGED <<files, ba2_dir, ba2_file, built_from, prev_build>>
       ELSE /\ ba2_dir' = TRUE
            /\ files' = LayOut(files, compress, DataOffset(files))
            /\ ba2_file' = FileOf(_write_archive(files, compress))
            /\ built_from' = added
            /\ prev_build' = IF ba2_file.exists /\ built_from = added
                              THEN [exists |-> TRUE, bytes |-> ba2_file.bytes,
                                    from |-> built_from]
                              ELSE NoBuild
            /\ ba2_err' = "none"
    /\ builder_call' = "build"
    /\ UNCHANGED <<platform, compress, added, reader_ok, reader_files, out_dir,
                   extracted, extract_call, hash_call, fuzvars,
                   plgvars, bsavars>>

\* a clear that forgets nothing
ClearKeepsFiles ==
    /\ files' = files
    /\ added' = <<>>
    /\ builder_call' = "clear"
    /\ UNCHANGED <<platform, compress, ba2_dir, ba2_file, built_from, prev_build,
                   ba2_err, reader_ok, reader_files, out_dir, extracted, extract_call,
                   hash_call, fuzvars, plgvars, bsavars>>

clear ==
    /\ files' = <<>>
    /\ added' = <<>>
    /\ builder_call' = "clear"
    /\ UNCHANGED <<platform, compress, ba2_dir, ba2_file, built_from, prev_build,
                   ba2_err, reader_ok, reader_files, out_dir, extracted, extract_call,
                   hash_call, fuzvars, plgvars, bsavars>>

\* BA2Reader(ba2_path): __init__ runs _parse; an exception leaves no reader
BA2Reader ==
    /\ ~reader_ok
    /\ ba2_file.exists
    /\ LET r == _parse(ba2_file)
       IN /\ ba2_err' = r.err
          /\ reader_ok' = (r.err = "none")
          /\ reader_files' = IF r.err = "none" THEN r.dict ELSE <<>>
    /\ out_dir' = {}
    /\ extracted' = 0
    /\ extract_call' = NotExtracted
    /\ UNCHANGED <<platform, compress, files, added, ba2_dir, ba2_file, built_from,
                   prev_build, builder_call, hash_call, fuzvars,
                   plgvars, bsavars>>

\* extract(output_dir, filter_pattern) into an empty output directory
extract(filter) ==
    /\ reader_ok
    /\ LET r == ExtractLoop(ba2_file.bytes, reader_files, filter, platform, {}, 0)
       IN /\ ba2_err' = r.err
          /\ out_dir' = r.dir
          /\ extracted' = IF r.err = "none" THEN r.extracted ELSE 0
    /\ extract_call' = [done |-> TRUE, filter |-> filter]
    /\ UNCHANGED <<platform, compress, files, added, ba2_dir, ba2_file, built_from,
                   prev_build, builder_call, reader_ok, reader_files, hash_call, fuzvars,
                   plgvars, bsavars>>

\* the reader object goes out of scope
discard_reader ==
    /\ reader_ok
    /\ reader_ok' = FALSE
    /\ reader_files' = <<>>
    /\ out_dir' = {}
    /\ extracted' = 0
    /\ extract_call' = NotExtracted
    /\ UNCHANGED <<platform, compress, files, added, ba2_dir, ba2_file, built_from,
                   prev_build, ba2_err, builder_call, hash_call, fuzvars,
                   plgvars, bsavars>>

(***************************************************************************)
(* Plugin record writer (plugin_generator.py, PluginGenerator).            *)
(***************************************************************************)
MASTER == 1

LIGHT == 512

TES4 == <<84, 69, 83, 52>>

GRUP == <<71, 82, 85, 80>>

SNDR == <<83, 78, 68, 82>>

MUSC == <<77, 85, 83, 67>>

FORM_ID_BASE == 2048

INTERNAL_VERSION == 44

RECORD_HEADER_SIZE == 24

U16_MAX == 65535

\* PluginInfo: author, description, master_files
INFO_AUTHOR == <<70, 79, 51, 32, 65, 117, 100, 105, 111, 32, 82, 101, 112, 111, 115, 105,
                 116, 111, 114, 121, 32, 66, 117, 105, 108, 100, 101, 114>>

INFO_DESCRIPTION == <<70, 97, 108, 108, 111, 117, 116, 32, 51, 32, 97, 117, 100, 105, 111,
                      32, 102, 105, 108, 101, 115, 32, 102, 111, 114, 32, 70, 97, 108, 108,
                      111, 117, 116, 32, 52>>

INFO_MASTER_FILES == << <<70, 97, 108, 108, 111, 117, 116, 52, 46, 101, 115, 109>> >>

\* struct.pack("<f", 0.95)
HEDR_VERSION == <<51, 51, 115, 63>>

Subrecord(type, data) == [type |-> type, data |-> data]

\* s.encode("utf-8") + b"\x00"
ZString(s) == Utf8Encode(s) \o <<0>>

\* _get_next_form_id: the identifier returned and the counter left behind
GetNextFormIdPreIncrement(n) == [form_id |-> n + 1, next |-> n + 1]

_get_next_form_id(n) == [form_id |-> n, next |-> n + 1]

\* struct.pack("<H", len(sr.data)) raises struct.error above 65535
Packable(subrecords) == \A i \in 1..Len(subrecords) : Len(subrecords[i].data) <= U16_MAX

BuildSubrecordsNoLength(subrecords) ==
    Concat([i \in 1..Len(subrecords) |-> subrecords[i].type \o subrecords[i].data])

_build_subrecords(subrecords) ==
    Concat([i \in 1..Len(subrecords) |->
               subrecords[i].type \o U16(Len(subrecords[i].data)) \o subrecords[i].data])

Record(type, flags, form_id, data) ==
    [type |-> type, data_size |-> Len(data), flags |-> flags, form_id |-> form_id,
     timestamp |-> 0, version_control |-> 0, internal_version |-> INTERNAL_VERSION,
     unknown |-> 0, data |-> data]

\* the subrecords add_sound_descriptor builds: EDID, CNAM, one ANAM per sound file
SoundSubrecords(editor_id, sound_files) ==
    <<Subrecord(<<69, 68, 73, 68>>, ZString(editor_id)),
      Subrecord(<<67, 78, 65, 77>>, U32(0))>>
    \o [i \in 1..Len(sound_files) |-> Subrecord(<<65, 78, 65, 77>>, ZString(sound_files[i]))]

\* the subrecords add_music_track builds: EDID, FNAM, ANAM
MusicSubrecords(editor_id, music_file, loop) ==
    <<Subrecord(<<69, 68, 73, 68>>, ZString(editor_id)),
      Subrecord(<<70, 78, 65, 77>>, U32(IF loop THEN 1 ELSE 0)),
      Subrecord(<<65, 78, 65, 77>>, ZString(music_file))>>

\* a header whose next object ID is derived from the record count
Tes4SubrecordsCountedNextId(recs, next_id) ==
    <<Subrecord(<<72, 69, 68, 82>>,
                HEDR_VERSION \o U32(Len(recs)) \o U32(FORM_ID_BASE + Len(recs))),
      Subrecord(<<67, 78, 65, 77>>, ZString(INFO_AUTHOR)),
      Subrecord(<<83, 78, 65, 77>>, ZString(INFO_DESCRIPTION))>>
    \o Concat([i \in 1..Len(INFO_MASTER_FILES) |->
                  <<Subrecord(<<77, 65, 83, 84>>, ZString(INFO_MASTER_FILES[i])),
                    Subrecord(<<68, 65, 84, 65>>, U64(0))>>])
    \o <<Subrecord(<<73, 78, 84, 86>>, U32(1))>>

Tes4Subrecords(recs, next_id) ==
    <<Subrecord(<<72, 69, 68, 82>>, HEDR_VERSION \o U32(Len(recs)) \o U32(next_id)),
      Subrecord(<<67, 78, 65, 77>>, ZString(INFO_AUTHOR)),
      Subrecord(<<83, 78, 65, 77>>, ZString(INFO_DESCRIPTION))>>
    \o Concat([i \in 1..Len(INFO_MASTER_FILES) |->
                  <<Subrecord(<<77, 65, 83, 84>>, ZString(INFO_MASTER_FILES[i])),
                    Subrecord(<<68, 65, 84, 65>>, U64(0))>>])
    \o <<Subrecord(<<73, 78, 84, 86>>, U32(1))>>

\* a header record flagged light whatever the profile
BuildTes4AlwaysLight(recs, next_id, esl) ==
    Record(TES4, MASTER + LIGHT, 0, _build_subrecords(Tes4Subrecords(recs, next_id)))

_build_tes4_record(recs, next_id, esl) ==
    Record(TES4, IF esl THEN MASTER + LIGHT ELSE MASTER, 0,
           _build_subrecords(Tes4Subrecords(recs, next_id)))

_write_record(record) ==
    record.type \o U32(record.data_size) \o U32(record.flags) \o U32(record.form_id)
    \o U16(record.timestamp) \o U16(record.version_control)
    \o U16(record.internal_version) \o U16(record.unknown) \o record.data

\* a group whose size leaves out its own header
WriteGroupSizeOfMembersOnly(group_label, recs, group_type) ==
    LET group_size == SumSeq([i \in 1..Len(recs) |-> RECORD_HEADER_SIZE + recs[i].data_size])
    IN GRUP \o U32(group_size) \o group_label \o U32(group_type) \o U16(0) \o U16(0) \o U32(0)
       \o Concat([i \in 1..Len(recs) |-> _write_record(recs[i])])

_write_group(group_label, recs, group_type) ==
    LET group_size == RECORD_HEADER_SIZE
                      + SumSeq([i \in 1..Len(recs) |-> RECORD_HEADER_SIZE + recs[i].data_size])
    IN GRUP \o U32(group_size) \o group_label \o U32(group_type) \o U16(0) \o U16(0) \o U32(0)
       \o Concat([i \in 1..Len(recs) |-> _write_record(recs[i])])

OfType(recs, type) == SelectSeq(recs, LAMBDA r : r.type = type)

WriteGroupEvenIfEmpty(group_label, recs) == _write_group(group_label, recs, 0)

\* "Write SNDR group if any", "Write MUSC group if any"
WriteGroupIfAny(group_label, recs) ==
    IF recs # <<>> THEN _write_group(group_label, recs, 0) ELSE <<>>

\* the bytes generate writes
PluginBytes(recs, next_id, esl) ==
    _write_record(_build_tes4_record(recs, next_id, esl))
    \o WriteGroupIfAny(SNDR, OfType(recs, SNDR))
    \o WriteGroupIfAny(MUSC, OfType(recs, MUSC))

PlgInit ==
    /\ as_esl \in BOOLEAN
    /\ records = <<>>
    /\ next_form_id = FORM_ID_BASE
    /\ calls = <<>>
    /\ plugin_file = NoFile
    /\ gen_records = <<>>
    /\ gen_calls = 0

PlgIdle ==
    /\ as_esl = TRUE
    /\ records = <<>>
    /\ next_form_id = FORM_ID_BASE
    /\ calls = <<>>
    /\ plugin_file = NoFile
    /\ gen_records = <<>>
    /\ gen_calls = 0

\* what an add_* call leaves behind: the form ID is taken first; an exception
\* from str.encode or struct.pack then leaves the record list as it was
AddOutcome(type, strings, subrecords) ==
    LET got == _get_next_form_id(next_form_id)
        ok == (\A i \in 1..Len(strings) : Encodable(strings[i])) /\ Packable(subrecords)
    IN [next |-> got.next,
        call |-> [type |-> type, form_id |-> got.form_id, raised |-> ~ok,
                  subrecords |-> IF ok THEN subrecords ELSE <<>>],
        records |-> IF ok
                    THEN Append(records, Record(type, 0, got.form_id,
                                                _build_subrecords(subrecords)))
                    ELSE records]

add_sound_descriptor(editor_id, sound_files) ==
    LET encodable == Encodable(editor_id)
                     /\ \A i \in 1..Len(sound_files) : Encodable(sound_files[i])
        out == AddOutcome(SNDR, <<editor_id>> \o sound_files,
                          IF encodable THEN SoundSubrecords(editor_id, sound_files) ELSE <<>>)
    IN /\ Len(calls) < MaxAdds
       /\ next_form_id' = out.next
       /\ calls' = Append(calls, out.call)
       /\ records' = out.records
       /\ UNCHANGED <<as_esl, plugin_file, gen_records, gen_calls, fuzvars, ba2vars, bsavars>>

add_music_track(editor_id, music_file, loop) ==
    LET encodable == Encodable(editor_id) /\ Encodable(music_file)
        out == AddOutcome(MUSC, <<editor_id, music_file>>,
                          IF encodable THEN MusicSubrecords(editor_id, music_file, loop)
                          ELSE <<>>)
    IN /\ Len(calls) < MaxAdds
       /\ next_form_id' = out.next
       /\ calls' = Append(calls, out.call)
       /\ records' = out.records
       /\ UNCHANGED <<as_esl, plugin_file, gen_records, gen_calls, fuzvars, ba2vars, bsavars>>

\* a generate that takes a form ID for itself
GenerateTakesFormId ==
    /\ plugin_file' = FileOf(PluginBytes(records, next_form_id, as_esl))
    /\ gen_records' = records
    /\ gen_calls' = Len(calls)
    /\ next_form_id' = next_form_id + 1
    /\ UNCHANGED <<as_esl, records, calls, fuzvars, ba2vars, bsavars>>

generate ==
    /\ plugin_file' = FileOf(PluginBytes(records, next_form_id, as_esl))
    /\ gen_records' = records
    /\ gen_calls' = Len(calls)
    /\ UNCHANGED <<as_esl, records, next_form_id, calls, fuzvars, ba2vars, bsavars>>

(***************************************************************************)
(* BSA extractor (bsa_extractor.py).                                       *)
(***************************************************************************)
BSA_MAGIC == <<66, 83, 65, 0>>

SupportedVersionsAndNext == {103, 104, 105, 106}

SUPPORTED_VERSIONS == {103, 104, 105}

BSA_HEADER_SIZE == 36

BSA_RECORD_SIZE == 16

FLAG_FOLDER_NAMES == 1

FLAG_FILE_NAMES == 2

FLAG_COMPRESSED == 4

FLAG_EMBEDDED_NAMES == 256

TOGGLE_BIT == 1073741824

HasFlag(flags, bit) == (flags \div bit) % 2 = 1

\* bytes.decode("cp1252", errors="replace")
Cp1252High == <<8364, 65533, 8218, 402, 8222, 8230, 8224, 8225, 710, 8240, 352, 8249, 338,
                65533, 381, 65533, 65533, 8216, 8217, 8220, 8221, 8226, 8211, 8212, 732,
                8482, 353, 8250, 339, 65533, 382, 376>>

Cp1252Decode(b) ==
    [i \in 1..Len(b) |-> IF b[i] < 128 \/ b[i] >= 160 THEN b[i] ELSE Cp1252High[b[i] - 127]]

\* str.rstrip("\x00")
RECURSIVE RStripNul(_)
RStripNul(str) ==
    IF str # <<>> /\ str[Len(str)] = 0 THEN RStripNul(SubSeq(str, 1, Len(str) - 1)) ELSE str

\* BSAHeader(data): struct.unpack("<4sIIIIIIII", data[:36])
BSAHeader(data) ==
    [file_id |-> Read(data, 0, 4),
     version |-> UnpackU32(Read(data, 4, 4)),
     offset |-> UnpackU32(Read(data, 8, 4)),
     archive_flags |-> UnpackU32(Read(data, 12, 4)),
     folder_count |-> UnpackU32(Read(data, 16, 4)),
     file_count |-> UnpackU32(Read(data, 20, 4)),
     total_folder_name_length |-> UnpackU32(Read(data, 24, 4)),
     total_file_name_length |-> UnpackU32(Read(data, 28, 4)),
     file_flags |-> UnpackU32(Read(data, 32, 4))]

IsValidAnyMagic(header) == TRUE

is_valid(header) == header.file_id = BSA_MAGIC

has_folder_names(header) == HasFlag(header.archive_flags, FLAG_FOLDER_NAMES)

has_file_names(header) == HasFlag(header.archive_flags, FLAG_FILE_NAMES)

default_compressed(header) == HasFlag(header.archive_flags, FLAG_COMPRESSED)

EmbeddedNamesIgnored(header) == FALSE

has_embedded_names(header) == HasFlag(header.archive_flags, FLAG_EMBEDDED_NAMES)

BSAFolderRecord(name_hash, count, offset) ==
    [name_hash |-> name_hash, count |-> count, offset |-> offset, name |-> <<>>]

BSAFileRecord(name_hash, size, offset, by_default) ==
    [name_hash |-> name_hash,
     compression_toggle |-> HasFlag(size, TOGGLE_BIT),
     size |-> size % TOGGLE_BIT,
     offset |-> offset,
     name |-> <<>>,
     default_compressed |-> by_default]

IsCompressedIgnoringToggle(file_record) == file_record.default_compressed

is_compressed(file_record) ==
    file_record.default_compressed # file_record.compression_toggle

\* the folder records after the header: [ok, recs], ok FALSE for struct.error;
\* a 64-bit name hash is kept as its eight bytes
RECURSIVE ReadFolderRecords(_, _, _)
ReadFolderRecords(f, pos, n) ==
    IF n = 0 THEN [ok |-> TRUE, recs |-> <<>>]
    ELSE IF pos + BSA_RECORD_SIZE > Len(f) THEN [ok |-> FALSE, recs |-> <<>>]
    ELSE LET rest == ReadFolderRecords(f, pos + BSA_RECORD_SIZE, n - 1)
         IN [ok |-> rest.ok,
             recs |-> <<BSAFolderRecord(Read(f, pos, 8),
                                        UnpackU32(Read(f, pos + 8, 4)),
                                        UnpackU32(Read(f, pos + 12, 4)))>> \o rest.recs]

\* the file records of one folder: [ok, recs]
RECURSIVE ReadFileRecords(_, _, _, _)
ReadFileRecords(f, pos, n, by_default) ==
    IF n = 0 THEN [ok |-> TRUE, recs |-> <<>>]
    ELSE IF pos + BSA_RECORD_SIZE > Len(f) THEN [ok |-> FALSE, recs |-> <<>>]
    ELSE LET rest == ReadFileRecords(f, pos + BSA_RECORD_SIZE, n - 1, by_default)
         IN [ok |-> rest.ok,
             recs |-> <<BSAFileRecord(Read(f, pos, 8),
                                      UnpackU32(Read(f, pos + 8, 4)),
                                      UnpackU32(Read(f, pos + 12, 4)),
                                      by_default)>> \o rest.recs]

\* the file record blocks, one per folder, read from pos on:
\* [ok, pos, all], all being all_file_records as (folder name, file record)
RECURSIVE ReadBlocks(_, _, _, _)
ReadBlocks(f, pos, folders, header) ==
    IF folders = <<>> THEN [ok |-> TRUE, pos |-> pos, all |-> <<>>]
    ELSE IF has_folder_names(header) /\ pos + 1 > Len(f)
    THEN [ok |-> FALSE, pos |-> pos, all |-> <<>>]
    ELSE LET name_len == IF has_folder_names(header) THEN Read(f, pos, 1)[1] ELSE 0
             raw == IF has_folder_names(header) THEN Read(f, pos + 1, name_len) ELSE <<>>
             folder_name == RStripNul(Cp1252Decode(raw))
             start == IF has_folder_names(header) THEN pos + 1 + Len(raw) ELSE pos
             recs == ReadFileRecords(f, start, Head(folders).count,
                                     default_compressed(header))
         IN IF ~recs.ok THEN [ok |-> FALSE, pos |-> pos, all |-> <<>>]
            ELSE LET rest == ReadBlocks(f, start + BSA_RECORD_SIZE * Head(folders).count,
                                        Tail(folders), header)
                 IN [ok |-> rest.ok, pos |-> rest.pos,
                     all |-> [i \in 1..Len(recs.recs) |->
                                 [folder_name |-> folder_name, rec |-> recs.recs[i]]]
                             \o rest.all]

\* the bytes from pos up to the next zero byte or the end of the file
RECURSIVE ReadCString(_, _)
ReadCString(f, pos) ==
    IF pos >= Len(f) \/ f[pos + 1] = 0 THEN <<>> ELSE <<f[pos + 1]>> \o ReadCString(f, pos + 1)

\* the file name block: each record gets the next null-terminated name
RECURSIVE ReadFileNames(_, _, _)
ReadFileNamesNotAdvancing(f, pos, all) ==
    [i \in 1..Len(all) |->
        [folder_name |-> all[i].folder_name,
         rec |-> [all[i].rec EXCEPT !.name = Cp1252Decode(ReadCString(f, pos))]]]

ReadFileNames(f, pos, all) ==
    IF all = <<>> THEN <<>>
    ELSE LET name_bytes == ReadCString(f, pos)
         IN <<[folder_name |-> Head(all).folder_name,
               rec |-> [Head(all).rec EXCEPT !.name = Cp1252Decode(name_bytes)]]>>
            \o ReadFileNames(f, Min(pos + Len(name_bytes) + 1, Len(f)), Tail(all))

FullPath(folder_name, name) ==
    IF folder_name # <<>> THEN folder_name \o <<Backslash>> \o name ELSE name

\* output_dir / full_path.replace("\\", "/"), relative to output_dir: pathlib
\* drops a trailing separator, and the empty path is output_dir itself
RECURSIVE RStripSlash(_)
RStripSlash(str) ==
    IF str # <<>> /\ str[Len(str)] = Slash THEN RStripSlash(SubSeq(str, 1, Len(str) - 1))
    ELSE str

OutputPath(full_path) == RStripSlash(ToSlash(full_path))

WarnVersion(version) == [warning |-> "version", path |-> <<>>]

\* a failure logged under the heading of the version warning
WarnDecompressAsVersion(full_path) == [warning |-> "version", path |-> full_path]

WarnDecompress(full_path) == [warning |-> "decompress", path |-> full_path]

DecompressNeverCaught(compressed_data) == FALSE

\* zlib.decompress(compressed_data) raises the zlib.error the loop catches
DecompressFails(compressed_data) == ~ZValid(compressed_data)

\* the extraction loop of _extract_files: [err, out, log, extracted_count]
RECURSIVE ExtractFiles(_, _, _, _, _, _, _, _)
ExtractFiles(f, all, header, filter, flavour, out, log, count) ==
    IF all = <<>> THEN [err |-> "none", out |-> out, log |-> log, extracted_count |-> count]
    ELSE
    LET file_record == Head(all).rec
        full_path == FullPath(Head(all).folder_name, file_record.name)
        embedded == has_embedded_names(header)
        at == file_record.offset
        embedded_len == IF embedded /\ at < Len(f) THEN f[at + 1] ELSE 0
        skipped == IF embedded THEN 1 + Len(Read(f, at + 1, embedded_len)) ELSE 0
        actual_size == IF embedded THEN file_record.size - (1 + embedded_len)
                       ELSE file_record.size
        from == Min(at + skipped, Len(f))
        n == actual_size - 4
        compressed_data == IF n = -1 THEN ReadAll(f, Min(from + 4, Len(f)))
                           ELSE Read(f, from + 4, n)
        failed(err) == [err |-> err, out |-> out, log |-> log, extracted_count |-> count]
    IN IF filter.set /\ ~Matches(full_path, filter, flavour)
       THEN ExtractFiles(f, Tail(all), header, filter, flavour, out, log, count)
       ELSE IF embedded /\ at >= Len(f) THEN failed("struct.error")
       ELSE IF is_compressed(file_record) /\ from + 4 > Len(f) THEN failed("struct.error")
       ELSE IF is_compressed(file_record) /\ n < -1 THEN failed("ValueError")
       ELSE IF ~is_compressed(file_record) /\ actual_size < -1 THEN failed("ValueError")
       ELSE IF is_compressed(file_record) /\ DecompressFails(compressed_data)
       THEN ExtractFiles(f, Tail(all), header, filter, flavour, out,
                         Append(log, WarnDecompress(full_path)), count)
       ELSE IF OutputPath(full_path) = <<>> THEN failed("OSError")
       ELSE LET file_data == IF is_compressed(file_record) THEN ZDecompress(compressed_data)
                             ELSE IF actual_size = -1 THEN ReadAll(f, from)
                             ELSE Read(f, from, actual_size)
            IN ExtractFiles(f, Tail(all), header, filter, flavour,
                            WriteOut(out, OutputPath(full_path), file_data), log, count + 1)

\* _extract_files: folder records, file record blocks, file names, extraction
_extract_files(f, header, filter, flavour, log) ==
    LET folder_records == ReadFolderRecords(f, BSA_HEADER_SIZE, header.folder_count)
        blocks == ReadBlocks(f, BSA_HEADER_SIZE + BSA_RECORD_SIZE * header.folder_count,
                             folder_records.recs, header)
        all_file_records == IF has_file_names(header)
                            THEN ReadFileNames(f, blocks.pos, blocks.all)
                            ELSE blocks.all
    IN IF ~folder_records.ok \/ ~blocks.ok
       THEN [err |-> "struct.error", out |-> {}, log |-> log, extracted_count |-> 0]
       ELSE ExtractFiles(f, all_file_records, header, filter, flavour, {}, log, 0)

\* BSAExtractor.list_contents on the archive file: [err, files]
ListContents(file) ==
    IF ~file.exists THEN [err |-> "FileNotFoundError", files |-> <<>>]
    ELSE IF Len(file.bytes) < BSA_HEADER_SIZE THEN [err |-> "struct.error", files |-> <<>>]
    ELSE
    LET f == file.bytes
        header == BSAHeader(Read(f, 0, BSA_HEADER_SIZE))
        folder_records == ReadFolderRecords(f, BSA_HEADER_SIZE, header.folder_count)
        blocks == ReadBlocks(f, BSA_HEADER_SIZE + BSA_RECORD_SIZE * header.folder_count,
                             folder_records.recs, header)
        all_records == ReadFileNames(f, blocks.pos, blocks.all)
    IN IF ~is_valid(header) THEN [err |-> "ValueError", files |-> <<>>]
       ELSE IF ~folder_records.ok \/ ~blocks.ok THEN [err |-> "struct.error", files |-> <<>>]
       ELSE [err |-> "none",
             files |-> IF has_file_names(header)
                       THEN [i \in 1..Len(all_records) |->
                                FullPath(all_records[i].folder_name, all_records[i].rec.name)]
                       ELSE <<>>]

\* BSAExtractor.extract on the archive file: [err, out, log, extracted_count]
Extract(file, filter, flavour) ==
    IF ~file.exists
    THEN [err |-> "FileNotFoundError", out |-> {}, log |-> <<>>, extracted_count |-> 0]
    ELSE IF Len(file.bytes) < BSA_HEADER_SIZE
    THEN [err |-> "struct.error", out |-> {}, log |-> <<>>, extracted_count |-> 0]
    ELSE LET header == BSAHeader(Read(file.bytes, 0, BSA_HEADER_SIZE))
         IN IF ~is_valid(header)
            THEN [err |-> "ValueError", out |-> {}, log |-> <<>>, extracted_count |-> 0]
            ELSE _extract_files(file.bytes, header, filter, flavour,
                                IF header.version \in SUPPORTED_VERSIONS THEN <<>>
                                ELSE <<WarnVersion(header.version)>>)

(***************************************************************************)
(* BSA archives on disk.  An archive is laid out from a description: the   *)
(* header fields, whether every file has a folder of its own, and for each *)
(* file how its bytes are stored and whether its record has the toggle bit *)
(* set.  How a file is stored is independent of the flags that tell the    *)
(* extractor how to read it.                                               *)
(***************************************************************************)
\* "s", "€" (byte 128 in cp1252), "u", ...
FolderNameOf(j) == IF j = 2 THEN <<128>> ELSE <<114 + j>>

\* "a.w", "é.x" (byte 233 in cp1252), "c.w", ...
FileNameOf(i) == IF i = 2 THEN <<233, Dot, 120>> ELSE <<96 + i, Dot, 119>>

\* the contents of file i
DataOf(i) == Repeat(6 + i, i + 2)

FolderIndexOf(in, i) == IF in.split THEN i ELSE 1

FolderCount(in) == IF in.split THEN Len(in.files) ELSE 1

MembersOf(in, j) ==
    IF in.split THEN <<j>> ELSE [i \in 1..Len(in.files) |-> i]

\* the stored bytes of file i: as they are, or a 4-byte size and a zlib stream,
\* or a 4-byte size and a zlib stream that has lost its last byte
PayloadOf(in, i) ==
    LET stored == in.files[i].stored
        z == ZCompress(DataOf(i))
    IN IF stored = "raw" THEN DataOf(i)
       ELSE IF stored = "deflated" THEN U32(Len(DataOf(i))) \o z
       ELSE U32(Len(DataOf(i))) \o SubSeq(z, 1, Len(z) - 1)

EmbeddedNameOf(in, i) ==
    FolderNameOf(FolderIndexOf(in, i)) \o <<Backslash>> \o FileNameOf(i)

DataBlockOf(in, i) ==
    (IF HasFlag(in.header.flags, FLAG_EMBEDDED_NAMES)
     THEN <<Len(EmbeddedNameOf(in, i))>> \o EmbeddedNameOf(in, i) ELSE <<>>)
    \o PayloadOf(in, i)

FolderNameBytes(in, j) ==
    IF HasFlag(in.header.flags, FLAG_FOLDER_NAMES)
    THEN <<Len(FolderNameOf(j)) + 1>> \o FolderNameOf(j) \o <<0>> ELSE <<>>

FileNameBlock(in) ==
    IF HasFlag(in.header.flags, FLAG_FILE_NAMES)
    THEN Concat([i \in 1..Len(in.files) |-> FileNameOf(i) \o <<0>>]) ELSE <<>>

FolderBlockLen(in, j) == Len(FolderNameBytes(in, j)) + BSA_RECORD_SIZE * Len(MembersOf(in, j))

BlocksStart(in) == BSA_HEADER_SIZE + BSA_RECORD_SIZE * FolderCount(in)

DataStart(in) ==
    BlocksStart(in) + SumSeq([j \in 1..FolderCount(in) |-> FolderBlockLen(in, j)])
    + Len(FileNameBlock(in))

DataOffsetOf(in, i) ==
    DataStart(in) + SumSeq([k \in 1..(i - 1) |-> Len(DataBlockOf(in, k))])

NameHashBytes == Repeat(0, 8)

FileRecordBytes(in, i) ==
    NameHashBytes
    \o U32(Len(DataBlockOf(in, i)) + (IF in.files[i].toggle THEN TOGGLE_BIT ELSE 0))
    \o U32(DataOffsetOf(in, i))

FolderRecordBytes(in, j) ==
    NameHashBytes \o U32(Len(MembersOf(in, j)))
    \o U32(BlocksStart(in) + SumSeq([k \in 1..(j - 1) |-> FolderBlockLen(in, k)])
           + Len(FileNameBlock(in)))

BsaBytes(in) ==
    in.header.magic \o U32(in.header.version) \o U32(BSA_HEADER_SIZE) \o U32(in.header.flags)
    \o U32(FolderCount(in)) \o U32(Len(in.files))
    \o U32(SumSeq([j \in 1..FolderCount(in) |-> Max(Len(FolderNameBytes(in, j)) - 1, 0)]))
    \o U32(Len(FileNameBlock(in))) \o U32(0)
    \o Concat([j \in 1..FolderCount(in) |-> FolderRecordBytes(in, j)])
    \o Concat([j \in 1..FolderCount(in) |->
                  FolderNameBytes(in, j)
                  \o Concat([m \in 1..Len(MembersOf(in, j)) |->
                                FileRecordBytes(in, MembersOf(in, j)[m])])])
    \o FileNameBlock(in)
    \o Concat([i \in 1..Len(in.files) |-> DataBlockOf(in, i)])

BsaHeaderOf(magic, version, flags) == [magic |-> magic, version |-> version, flags |-> flags]

EmptyBsaInput ==
    [header |-> BsaHeaderOf(BSA_MAGIC, 104, FLAG_FOLDER_NAMES + FLAG_FILE_NAMES),
     split |-> FALSE, files |-> <<>>]

NotCalled == [called |-> FALSE, err |-> "none", extracted_count |-> 0, filter |-> NoFilter]

NotListed == [called |-> FALSE, err |-> "none", files |-> <<>>]

BsaIdle ==
    /\ bsa_in = EmptyBsaInput
    /\ bsa_file = NoFile
    /\ bsa_out = {}
    /\ bsa_log = <<>>
    /\ bsa_ret = NotCalled
    /\ bsa_list = NotListed

\* BSAExtractor.extract(bsa_path, output_dir, filter_pattern) into an empty output_dir
BSAExtractor_extract(filter) ==
    LET r == Extract(bsa_file, filter, platform)
    IN /\ bsa_out' = r.out
       /\ bsa_log' = r.log
       /\ bsa_ret' = [called |-> TRUE, err |-> r.err, extracted_count |-> r.extracted_count,
                      filter |-> filter]
       /\ UNCHANGED <<bsa_in, bsa_file, bsa_list, fuzvars, ba2vars, plgvars>>

\* BSAExtractor.list_contents(bsa_path)
BSAExtractor_list_contents ==
    LET r == ListContents(bsa_file)
    IN /\ bsa_list' = [called |-> TRUE, err |-> r.err, files |-> r.files]
       /\ UNCHANGED <<bsa_in, bsa_file, bsa_out, bsa_log, bsa_ret, fuzvars, ba2vars, plgvars>>

(***************************************************************************)
(* Specifications.                                                         *)
(***************************************************************************)
InitBA2 == BA2Init /\ FuzIdle /\ PlgIdle /\ BsaIdle

\* one round trip: collect, build, read the archive back
NextBA2 ==
    \/ \E p \in ArchivePaths, d \in SourceData : ~ba2_file.exists /\ add_file(p, d)
    \/ ~ba2_file.exists /\ add_file_missing
    \/ build
    \/ BA2Reader
    \/ \E flt \in Filters : extract(flt)
    \/ discard_reader

SpecBA2 == InitBA2 /\ [][NextBA2]_vars

\* strings of "A", "a", "/", "\" and "é" handed to _hash_string directly
HashInputs == SeqsUpTo({65, 97, Slash, Backslash, 233}, MaxHashLen)

\* one direct hashing on a fresh builder, and the hashes add_file stores
NextHash ==
    \/ \E s \in HashInputs : ~hash_call.called /\ call_hash_string(s)
    \/ \E p \in ArchivePaths : ~hash_call.called /\ add_file(p, <<>>)

SpecHash == InitBA2 /\ [][NextHash]_vars

\* reuse of one builder: additions, builds and clears in any order
ReusePaths == {<<68, 47, 97, 46, 119>>, <<233, 46, 87>>}

ReuseData == {Repeat(7, MaxRun), <<7, 8>>}

NextBA2Reuse ==
    \/ \E p \in ReusePaths, d \in ReuseData : add_file(p, d)
    \/ add_file_missing
    \/ build
    \/ clear

SpecBA2Reuse == InitBA2 /\ [][NextBA2Reuse]_vars

(***************************************************************************)
(* The FUZ codec as a state machine.                                       *)
(***************************************************************************)
FuzAudio == SeqsUpTo(FuzBytes, MaxFuzLen)

FuzLips == {NoLip} \cup {LipOf(b) : b \in SeqsUpTo(FuzBytes, MaxFuzLen)}

InitFUZ == FuzInit /\ BA2Idle /\ PlgIdle /\ BsaIdle

NextFUZ ==
    \/ \E a \in FuzAudio, l \in FuzLips : create_fuz(a, l)
    \/ read_fuz

SpecFUZ == InitFUZ /\ [][NextFUZ]_vars

\* the files of a directory: file i is "a", "b", ... with suffix ".fuz" or ".txt",
\* and holds a FUZ with lip data, a FUZ without, a file with another magic, or
\* a FUZ cut off inside its header
FuzKinds == {"lip", "nolip", "badmagic", "short"}

AudioOf(i) == <<7, i>>

FuzFileBytes(i, kind) ==
    IF kind = "lip" THEN FuzEncode(AudioOf(i), LipOf(<<i>>))
    ELSE IF kind = "nolip" THEN FuzEncode(AudioOf(i), NoLip)
    ELSE IF kind = "badmagic" THEN BA2_MAGIC \o U32(1) \o U32(0) \o AudioOf(i)
    ELSE MAGIC_FO3 \o U32(1) \o <<0, 0>>

DirEntry(i, kind, is_fuz) ==
    [name |-> <<96 + i>> \o (IF is_fuz THEN SUFFIX_FUZ ELSE <<46, 116, 120, 116>>),
     bytes |-> FuzFileBytes(i, kind), kind |-> kind, audio |-> AudioOf(i), lip |-> <<i>>]

FuzDirs ==
    UNION {{[i \in 1..n |-> DirEntry(i, kinds[i], fuz[i])] :
               kinds \in [1..n -> FuzKinds], fuz \in [1..n -> BOOLEAN]} : n \in 0..MaxFuzFiles}

InitFuzDir ==
    /\ fuz_file = NoFile
    /\ fuz_in = [audio |-> <<>>, lip |-> NoLip]
    /\ fuz_result = NoFuzResult
    /\ fuz_dir \in FuzDirs
    /\ fuz_dir_out = {}
    /\ fuz_dir_ret = NotProcessed
    /\ BA2Idle /\ PlgIdle /\ BsaIdle

NextFuzDir == process_directory

SpecFuzDir == InitFuzDir /\ [][NextFuzDir]_vars

\* archives that reach the reader from elsewhere: written by a builder from up
\* to MaxFiles files, with any value in the header's type field and possibly
\* one compressed stream whose first byte has been overwritten
ForeignTypes == {GNRL, DX10, GNMF, GNMF + 1}

ForeignAdds == [path : ReusePaths, data : ReuseData]

\* the records the builder held when it wrote the archive
ForeignRecords(adds, comp, flavour) ==
    LET recs == [i \in 1..Len(adds) |-> NewRecord(adds[i].path, adds[i].data, flavour)]
    IN LayOut(recs, comp, DataOffset(recs))

Retyped(b, type) == Read(b, 0, 8) \o U32(type) \o ReadAll(b, 12)

\* b with the first byte of the compressed stream of record k overwritten;
\* b itself when there is no such record or it is stored uncompressed
StreamDamaged(b, recs, k) ==
    IF k \in 1..Len(recs) /\ recs[k].packed_size > 0
    THEN [i \in 1..Len(b) |-> IF i = recs[k].offset + 1 THEN 0 ELSE b[i]]
    ELSE b

ForeignArchive(adds, comp, flavour, type, k) ==
    LET recs == ForeignRecords(adds, comp, flavour)
    IN StreamDamaged(Retyped(ArchiveBytes(recs, comp), type), recs, k)

InitBA2Foreign ==
    /\ platform \in Platforms
    /\ compress \in BOOLEAN
    /\ files = <<>>
    /\ added \in SeqsUpTo(ForeignAdds, MaxFiles) \ {<<>>}
    /\ ba2_dir = TRUE
    /\ ba2_file \in {FileOf(ForeignArchive(added, compress, platform, type, k)) :
                       type \in ForeignTypes, k \in 0..MaxFiles}
    /\ built_from = added
    /\ prev_build = NoBuild
    /\ ba2_err = "none"
    /\ builder_call = "__init__"
    /\ reader_ok = FALSE
    /\ reader_files = <<>>
    /\ out_dir = {}
    /\ extracted = 0
    /\ extract_call = NotExtracted
    /\ hash_call = NotHashed
    /\ FuzIdle /\ PlgIdle /\ BsaIdle

NextBA2Foreign ==
    \/ BA2Reader
    \/ \E flt \in Filters : extract(flt)
    \/ discard_reader

SpecBA2Foreign == InitBA2Foreign /\ [][NextBA2Foreign]_vars

\* "é" and a string holding a lone surrogate, which str.encode("utf-8") refuses
EditorIds == {<<233>>, <<Surrogate>>}

\* "s" and a string holding a lone surrogate
SoundNames == {<<115>>, <<Surrogate>>}

InitPlugin == PlgInit /\ FuzIdle /\ BA2Idle /\ BsaIdle

NextPlugin ==
    \/ \E e \in EditorIds, fs \in SeqsUpTo(SoundNames, MaxSounds) : add_sound_descriptor(e, fs)
    \/ \E e \in EditorIds, mf \in SoundNames, loop \in BOOLEAN : add_music_track(e, mf, loop)
    \/ generate

SpecPlugin == InitPlugin /\ [][NextPlugin]_vars

\* the flags of the archives: with both name tables, every combination of the
\* default-compressed and embedded-names flags; without embedded names, every
\* combination of the name-table flags and the default-compressed flag
BsaFlagSets ==
    {FLAG_FOLDER_NAMES + FLAG_FILE_NAMES + c + d :
         c \in {0, FLAG_COMPRESSED}, d \in {0, FLAG_EMBEDDED_NAMES}}
    \cup {a + b + c : a \in {0, FLAG_FOLDER_NAMES}, b \in {0, FLAG_FILE_NAMES},
                      c \in {0, FLAG_COMPRESSED}}

\* the archive headers: version 104 under each of the flag sets, an unsupported
\* version, and a file that does not start with the BSA magic
BsaHeaders ==
    {BsaHeaderOf(BSA_MAGIC, 104, fl) : fl \in BsaFlagSets}
    \cup {BsaHeaderOf(BSA_MAGIC, 106,
                      FLAG_FOLDER_NAMES + FLAG_FILE_NAMES + FLAG_COMPRESSED),
          BsaHeaderOf(BA2_MAGIC, 104, FLAG_FOLDER_NAMES + FLAG_FILE_NAMES)}

BsaFileChoices == [stored : {"raw", "deflated", "damaged"}, toggle : BOOLEAN]

BsaInputs ==
    [header : BsaHeaders, split : BOOLEAN, files : SeqsUpTo(BsaFileChoices, MaxBsaFiles)]

BsaInit ==
    /\ bsa_in \in BsaInputs
    /\ bsa_file \in {FileOf(BsaBytes(bsa_in))}
                    \cup (IF bsa_in = EmptyBsaInput THEN {NoFile} ELSE {})
    /\ bsa_out = {}
    /\ bsa_log = <<>>
    /\ bsa_ret = NotCalled
    /\ bsa_list = NotListed

\* the names in the archives and the filter pattern are lower case, on which
\* the pathlib flavours agree
InitBSA == BsaInit /\ BA2Idle /\ FuzIdle /\ PlgIdle

NextBSA ==
    \/ \E filter \in Filters : BSAExtractor_extract(filter)
    \/ BSAExtractor_list_contents

SpecBSA == InitBSA /\ [][NextBSA]_vars

(***************************************************************************)
(* Properties.                                                             *)
(***************************************************************************)
NormPath(p) == Lower(ToBackslash(p))

NoCollisions(log) ==
    \A i, j \in 1..Len(log) : i # j => NormPath(log[i].path) # NormPath(log[j].path)

RoundTripDone == reader_ok /\ extract_call.done /\ ~extract_call.filter.set

\* the n names stored from byte pos of f on, as the bytes of each
RECURSIVE ReadNames(_, _, _)
ReadNames(f, pos, n) ==
    IF n = 0 \/ Len(Read(f, pos, 2)) # 2 THEN <<>>
    ELSE LET name_len == UnpackU16(Read(f, pos, 2))
         IN <<Read(f, pos + 2, name_len)>> \o ReadNames(f, pos + 2 + name_len, n - 1)

\* C1 as stated: for any set of (path, bytes) pairs added and built, the reader
\* over the archive yields the same path set and extraction returns, for every
\* pair, the bytes added for its path.
C1_RoundTripAnyPairs ==
    RoundTripDone =>
        /\ {reader_files[i].key : i \in 1..Len(reader_files)}
              = {NormPath(built_from[i].path) : i \in 1..Len(built_from)}
        /\ \A i \in 1..Len(built_from) :
              \E e \in out_dir : /\ Lower(e.path) = NormPath(built_from[i].path)
                                 /\ e.data = built_from[i].data

\* C1 (amended): when the added paths are pairwise distinct after separator
\* normalisation and lower-casing, then for compress False and True the reader
\* parses the built archive without error, its keys are the normalised lower-cased
\* paths in insertion order, each record carries the normalised path and the
\* length of its bytes, and an unfiltered extract writes exactly the added bytes
\* under each path.
C1_RoundTripDistinctPaths ==
    /\ ba2_err \in {"none", "FileNotFoundError", EmptyArchiveError}
    /\ (reader_ok /\ NoCollisions(built_from)) =>
          /\ Len(reader_files) = Len(built_from)
          /\ \A i \in 1..Len(built_from) :
                /\ reader_files[i].key = NormPath(built_from[i].path)
                /\ reader_files[i].rec.path = ToBackslash(built_from[i].path)
                /\ reader_files[i].rec.unpacked_size = Len(built_from[i].data)
    /\ (RoundTripDone /\ NoCollisions(built_from)) =>
          /\ out_dir = {[path |-> ToBackslash(built_from[i].path),
                         data |-> built_from[i].data] : i \in 1..Len(built_from)}
          /\ extracted = Len(built_from)

C1_Witness ==
    /\ RoundTripDone
    /\ compress
    /\ Len(built_from) = 2
    /\ NoCollisions(built_from)
    /\ \E i, j \in 1..Len(files) :
          /\ files[i].packed_size > 0
          /\ files[j].packed_size = 0
          /\ files[j].data # <<>>
    /\ Cardinality(out_dir) = 2

FuzLipOrEmpty(lip) == IF lip.present THEN lip.data ELSE <<>>

\* C2: read_fuz of the container create_fuz(audio, lip) wrote returns the audio
\* bytes and the lip bytes, a zero-length or absent lip coming back as no lip data.
C2_FuzRoundTrip ==
    (fuz_file.exists /\ fuz_result.err # "unread") =>
        /\ fuz_result.err = "none"
        /\ fuz_result.audio = fuz_in.audio
        /\ FuzLipOrEmpty(fuz_result.lip) = FuzLipOrEmpty(fuz_in.lip)
        /\ (FuzLipOrEmpty(fuz_in.lip) = <<>> => ~fuz_result.lip.present)

C2_Witness ==
    /\ fuz_result.err = "none"
    /\ fuz_in.lip.present
    /\ fuz_in.lip.data = <<>>
    /\ Len(fuz_in.audio) = MaxFuzLen
    /\ fuz_result.audio = fuz_in.audio

\* C5: build on a builder with no entries raises the empty-archive error and has
\* no file-system effect: no output directory and no output file are created.
C5_EmptyBuildNoOutput ==
    (builder_call = "build" /\ files = <<>>) =>
        /\ ba2_err = EmptyArchiveError
        /\ ~ba2_file.exists
        /\ ~ba2_dir

C5_Witness ==
    builder_call = "build" /\ files = <<>> /\ ba2_err = EmptyArchiveError /\ ~ba2_file.exists

\* C6: with compression enabled every record of a written archive has packed_size
\* 0 or strictly below unpacked_size: the compressed form is stored exactly when
\* it is strictly shorter than the original, else the original with packed_size 0.
C6_PackedStrictlySmaller ==
    /\ \A i \in 1..Len(files) :
          files[i].packed_size = 0 \/ files[i].packed_size < files[i].unpacked_size
    /\ (compress /\ ba2_file.exists) =>
          LET f == ba2_file.bytes
          IN /\ UnpackU32(Read(f, 12, 4)) = Len(built_from)
             /\ \A k \in 1..Len(built_from) :
                   LET r == ParseRecord(f, k - 1)
                       src == built_from[k].data
                   IN /\ r.unpacked_size = Len(src)
                      /\ r.packed_size = 0 \/ r.packed_size < r.unpacked_size
                      /\ IF Len(ZCompress(src)) < Len(src)
                         THEN /\ r.packed_size = Len(ZCompress(src))
                              /\ Read(f, r.offset, r.packed_size) = ZCompress(src)
                         ELSE /\ r.packed_size = 0
                              /\ Read(f, r.offset, r.unpacked_size) = src

C6_Witness ==
    /\ compress
    /\ ba2_file.exists
    /\ \E i, j \in 1..Len(files) :
          /\ files[i].packed_size > 0
          /\ files[j].packed_size = 0
          /\ Len(ZCompress(files[j].data)) = files[j].unpacked_size

\* C7: a build from the same add_file sequence as the build before it writes the
\* same bytes, and in every archive the k-th record, the k-th data block and the
\* k-th name are those of the k-th add_file call.
C7_DeterministicInsertionOrder ==
    /\ prev_build.exists => prev_build.bytes = ba2_file.bytes
    /\ ba2_file.exists =>
          LET f == ba2_file.bytes
              n == Len(built_from)
              names == ReadNames(f, UnpackU64(Read(f, 16, 8)), n)
          IN /\ UnpackU32(Read(f, 12, 4)) = n
             /\ Len(names) = n
             /\ \A k \in 1..n :
                   LET r == ParseRecord(f, k - 1)
                       exp == NewRecord(built_from[k].path, built_from[k].data, platform)
                       block == DataBlock(exp, compress)
                   IN /\ r.name_hash = exp.name_hash
                      /\ r.dir_hash = exp.dir_hash
                      /\ r.ext = exp.ext
                      /\ r.unpacked_size = Len(built_from[k].data)
                      /\ Read(f, r.offset, Len(block)) = block
                      /\ k < n => ParseRecord(f, k).offset = r.offset + Len(block)
                      /\ names[k] = Utf8Encode(ToBackslash(built_from[k].path))

C7_Witness ==
    /\ prev_build.exists
    /\ builder_call = "build"
    /\ Len(built_from) = 2
    /\ built_from[1].path # built_from[2].path
    /\ built_from[1].data # built_from[2].data

\* reading the plugin file back: a 24-byte record header and its body at pos
RecordAt(f, pos) ==
    [type |-> Read(f, pos, 4),
     data_size |-> UnpackU32(Read(f, pos + 4, 4)),
     flags |-> UnpackU32(Read(f, pos + 8, 4)),
     form_id |-> UnpackU32(Read(f, pos + 12, 4)),
     timestamp |-> UnpackU16(Read(f, pos + 16, 2)),
     version_control |-> UnpackU16(Read(f, pos + 18, 2)),
     internal_version |-> UnpackU16(Read(f, pos + 20, 2)),
     unknown |-> UnpackU16(Read(f, pos + 22, 2)),
     data |-> Read(f, pos + 24, UnpackU32(Read(f, pos + 4, 4)))]

\* the records lying between pos and end
RECURSIVE RecordsIn(_, _, _)
RecordsIn(f, pos, end) ==
    IF pos + RECORD_HEADER_SIZE > end
    THEN <<>>
    ELSE LET r == RecordAt(f, pos)
         IN <<r>> \o RecordsIn(f, pos + RECORD_HEADER_SIZE + r.data_size, end)

\* the group wrappers from pos to the end of the file, each with its members
RECURSIVE GroupsFrom(_, _)
GroupsFrom(f, pos) ==
    IF pos >= Len(f)
    THEN <<>>
    ELSE LET size == UnpackU32(Read(f, pos + 4, 4))
         IN <<[tag |-> Read(f, pos, 4),
               label |-> Read(f, pos + 8, 4),
               members |-> RecordsIn(f, pos + RECORD_HEADER_SIZE, pos + size)]>>
            \o GroupsFrom(f, pos + Max(size, RECORD_HEADER_SIZE))

ExpectedGroup(label) ==
    IF OfType(gen_records, label) # <<>>
    THEN <<[tag |-> GRUP, label |-> label, members |-> OfType(gen_records, label)]>>
    ELSE <<>>

\* C9: the generated file is the header record, then one group wrapper per
\* record type that has records, SNDR before MUSC, each followed by its
\* members in insertion order; a type without records has no wrapper.
C9_HeaderThenGroups ==
    plugin_file.exists =>
        LET f == plugin_file.bytes
            header == RecordAt(f, 0)
            groups == GroupsFrom(f, RECORD_HEADER_SIZE + header.data_size)
        IN /\ header.type = TES4
           /\ groups = ExpectedGroup(SNDR) \o ExpectedGroup(MUSC)
           /\ (OfType(gen_records, SNDR) # <<>> /\ OfType(gen_records, MUSC) # <<>>)
                  => Len(groups) = 2

\* a music track was added before a sound descriptor, and both were written
C9_Witness ==
    /\ plugin_file.exists
    /\ Len(gen_records) >= 2
    /\ gen_records[1].type = MUSC
    /\ gen_records[2].type = SNDR

\* the subrecords found by walking a record body: tag, 16-bit length, data
RECURSIVE WalkSubrecords(_, _)
WalkSubrecords(data, pos) ==
    IF pos + 6 > Len(data)
    THEN <<>>
    ELSE LET n == UnpackU16(Read(data, pos + 4, 2))
         IN <<Subrecord(Read(data, pos, 4), Read(data, pos + 6, n))>>
            \o WalkSubrecords(data, pos + 6 + n)

SubrecordBodyLength(subrecords) ==
    SumSeq([i \in 1..Len(subrecords) |-> 4 + 2 + Len(subrecords[i].data)])

SucceededCalls == SelectSeq(calls, LAMBDA c : ~c.raised)

\* C8: the k-th add_* call (k from 0) takes form ID 0x800 + k, whether or not
\* it then fails; the counter never hands an identifier out twice.
C8_FormIdsSequential ==
    /\ \A k \in 1..Len(calls) : calls[k].form_id = 2048 + (k - 1)
    /\ next_form_id = 2048 + Len(calls)
    /\ Len(records) = Len(SucceededCalls)
    /\ \A i \in 1..Len(records) : records[i].form_id = SucceededCalls[i].form_id
    /\ \A i, j \in 1..Len(records) : i < j => records[i].form_id < records[j].form_id

\* a call that raised after taking its form ID is followed by one that succeeds
C8_Witness ==
    \E k \in 1..Len(calls) - 1 : calls[k].raised /\ ~calls[k + 1].raised

\* C10: the declared data length of every record, the header record included,
\* is the sum over its subrecords of 4 + 2 + the subrecord's data length.
C10_DataSizeIsSubrecordBody ==
    /\ \A i \in 1..Len(records) :
          /\ WalkSubrecords(records[i].data, 0) = SucceededCalls[i].subrecords
          /\ records[i].data_size = SubrecordBodyLength(SucceededCalls[i].subrecords)
    /\ plugin_file.exists =>
          LET header == RecordAt(plugin_file.bytes, 0)
              subs == WalkSubrecords(header.data, 0)
          IN /\ [i \in 1..Len(subs) |-> subs[i].type]
                  = << <<72, 69, 68, 82>>, <<67, 78, 65, 77>>, <<83, 78, 65, 77>>,
                       <<77, 65, 83, 84>>, <<68, 65, 84, 65>>, <<73, 78, 84, 86>> >>
             /\ header.data_size = SubrecordBodyLength(subs)
             /\ Len(plugin_file.bytes) >= RECORD_HEADER_SIZE + header.data_size

\* a sound descriptor with two sound files and a music track are held, and
\* the header record has been written
C10_Witness ==
    /\ plugin_file.exists
    /\ \E i \in 1..Len(records) :
          records[i].type = SNDR /\ Len(SucceededCalls[i].subrecords) = 4
    /\ \E i \in 1..Len(records) : records[i].type = MUSC

\* where the description of the archive puts file i in the output directory
ExpectedPath(in, i) ==
    Cp1252Decode(FolderNameOf(FolderIndexOf(in, i))) \o <<Slash>>
    \o Cp1252Decode(FileNameOf(i))

NamedArchive ==
    /\ bsa_file.exists
    /\ bsa_in.header.magic = BSA_MAGIC
    /\ HasFlag(bsa_in.header.flags, FLAG_FOLDER_NAMES)
    /\ HasFlag(bsa_in.header.flags, FLAG_FILE_NAMES)

EffectivelyCompressed(i) ==
    HasFlag(bsa_in.header.flags, FLAG_COMPRESSED) # bsa_in.files[i].toggle

Damaged == {i \in 1..Len(bsa_in.files) : bsa_in.files[i].stored = "damaged"}

\* every file is stored the way its record says, but for exactly one whose
\* compressed stream is damaged
OneCorruptFile ==
    /\ NamedArchive
    /\ Cardinality(Damaged) = 1
    /\ \A i \in 1..Len(bsa_in.files) :
          IF EffectivelyCompressed(i) THEN bsa_in.files[i].stored # "raw"
          ELSE bsa_in.files[i].stored = "raw"

Selected(i) ==
    ~bsa_ret.filter.set
    \/ Matches(EmbeddedNameOf(bsa_in, i), bsa_ret.filter, platform)

DecompressWarnings == SelectSeq(bsa_log, LAMBDA w : w.warning = "decompress")

\* C3: with exactly one file of an otherwise valid archive holding a damaged
\* compressed stream, extract returns without raising, every other file the
\* call selects is written with its contents, before and after the damaged
\* one, the damaged file is not written and its failure is logged once; an
\* extraction without filter writes total_files - 1 files.
C3_OneCorruptFileIsSkipped ==
    (OneCorruptFile /\ bsa_ret.called) =>
        LET bad == CHOOSE i \in Damaged : TRUE
            total_files == Len(bsa_in.files)
        IN /\ bsa_ret.err = "none"
           /\ \A i \in 1..total_files :
                 (i # bad /\ Selected(i))
                     => [path |-> ExpectedPath(bsa_in, i), data |-> DataOf(i)] \in bsa_out
           /\ \A e \in bsa_out : e.path # ExpectedPath(bsa_in, bad)
           /\ Len(DecompressWarnings) = (IF Selected(bad) THEN 1 ELSE 0)
           /\ \A k \in 1..Len(DecompressWarnings) :
                 DecompressWarnings[k].path = Cp1252Decode(EmbeddedNameOf(bsa_in, bad))
           /\ ~bsa_ret.filter.set =>
                 /\ bsa_ret.extracted_count = total_files - 1
                 /\ Cardinality(bsa_out) = total_files - 1

\* the first of two files is the damaged one and the second has been written
C3_Witness ==
    /\ OneCorruptFile
    /\ bsa_ret.called
    /\ ~bsa_ret.filter.set
    /\ Len(bsa_in.files) = 2
    /\ Damaged = {1}
    /\ bsa_ret.extracted_count = 1
    /\ [path |-> ExpectedPath(bsa_in, 2), data |-> DataOf(2)] \in bsa_out
    /\ Len(DecompressWarnings) = 1

\* C4: a file is read as compressed exactly when the archive's default
\* compression flag and the record's toggle bit differ, under each of the four
\* combinations; with both set (or neither) the stored bytes are written
\* unmodified.
C4_EffectiveCompressionIsXor ==
    (NamedArchive /\ bsa_ret.called /\ ~bsa_ret.filter.set /\ bsa_ret.err = "none") =>
        \A i \in 1..Len(bsa_in.files) :
            LET by_default == HasFlag(bsa_in.header.flags, FLAG_COMPRESSED)
                toggle == bsa_in.files[i].toggle
                written == {e \in bsa_out : e.path = ExpectedPath(bsa_in, i)}
            IN IF by_default = toggle
               THEN written = {[path |-> ExpectedPath(bsa_in, i),
                                data |-> PayloadOf(bsa_in, i)]}
               ELSE IF bsa_in.files[i].stored = "deflated"
               THEN written = {[path |-> ExpectedPath(bsa_in, i), data |-> DataOf(i)]}
               ELSE written = {}

\* in an archive compressed by default, a file with the toggle bit set came
\* out as its stored bytes and a file without it came out decompressed
C4_Witness ==
    /\ NamedArchive
    /\ bsa_ret.called
    /\ bsa_ret.err = "none"
    /\ HasFlag(bsa_in.header.flags, FLAG_COMPRESSED)
    /\ Len(bsa_in.files) = 2
    /\ bsa_in.files[1].toggle /\ bsa_in.files[1].stored = "raw"
    /\ ~bsa_in.files[2].toggle /\ bsa_in.files[2].stored = "deflated"
    /\ [path |-> ExpectedPath(bsa_in, 1), data |-> DataOf(1)] \in bsa_out
    /\ [path |-> ExpectedPath(bsa_in, 2), data |-> DataOf(2)] \in bsa_out

\* the bytes a group wrapper and its members occupy in the file
GroupExtent(recs) ==
    IF recs = <<>> THEN 0
    ELSE 24 + SumSeq([i \in 1..Len(recs) |-> 24 + Len(recs[i].data)])

\* C11: the size field of every group wrapper in the generated file is its
\* 24-byte header plus 24 + data length for each member, and that is the
\* number of bytes from the wrapper to the next wrapper or the end of the file.
C11_GroupSizeIsExtent ==
    plugin_file.exists =>
        LET f == plugin_file.bytes
            sndr == OfType(gen_records, SNDR)
            musc == OfType(gen_records, MUSC)
            first == 24 + RecordAt(f, 0).data_size
            second == first + GroupExtent(sndr)
        IN /\ sndr # <<>> => /\ Read(f, first, 4) = GRUP
                             /\ Read(f, first + 8, 4) = SNDR
                             /\ UnpackU32(Read(f, first + 4, 4)) = GroupExtent(sndr)
           /\ musc # <<>> => /\ Read(f, second, 4) = GRUP
                             /\ Read(f, second + 8, 4) = MUSC
                             /\ UnpackU32(Read(f, second + 4, 4)) = GroupExtent(musc)
           /\ Len(f) = second + GroupExtent(musc)

\* a file with a group of two sound descriptors followed by a group of one
\* music track
C11_Witness ==
    /\ plugin_file.exists
    /\ Len(OfType(gen_records, SNDR)) = 2
    /\ Len(OfType(gen_records, MUSC)) = 1

\* the HEDR subrecord of the header record of the generated file
HedrOf(f) == WalkSubrecords(RecordAt(f, 0).data, 0)[1].data

\* C12: in the generated file the header's record count is the number of
\* accumulated records and its next-object-ID is 0x800 plus the number of
\* add_* calls made, above every form ID assigned so far.
C12_HeaderCounts ==
    plugin_file.exists =>
        LET hedr == HedrOf(plugin_file.bytes)
            count == UnpackU32(Read(hedr, 4, 4))
            next_id == UnpackU32(Read(hedr, 8, 4))
        IN /\ Len(hedr) = 12
           /\ count = Len(gen_records)
           /\ next_id = 2048 + gen_calls
           /\ \A k \in 1..gen_calls : calls[k].form_id < next_id
           /\ \A i \in 1..Len(gen_records) : gen_records[i].form_id < next_id

\* one sound descriptor and one music track are in the file, written after a
\* third add_* call had raised
C12_Witness ==
    /\ plugin_file.exists
    /\ gen_calls = 3
    /\ Len(OfType(gen_records, SNDR)) = 1
    /\ Len(OfType(gen_records, MUSC)) = 1
    /\ UnpackU32(Read(HedrOf(plugin_file.bytes), 4, 4)) = 2

\* C13: add_file on a source path that does not exist raises FileNotFoundError
\* in the call itself and leaves the builder's entry list, and the archive on
\* disk, as they were.
C13_MissingSourceFailsAtAdd ==
    [][(builder_call' = "add_file" /\ ba2_err' = "FileNotFoundError")
          => (files' = files /\ added' = added /\ ba2_file' = ba2_file)]_vars

\* an add_file on a missing source has just failed on a builder that holds a record
C13_Witness ==
    /\ builder_call = "add_file"
    /\ ba2_err = "FileNotFoundError"
    /\ Len(files) = 1

\* C14: once build has written the archive, an add_file that is not preceded
\* by clear leaves the entry list unchanged.
C14_FrozenAfterBuild ==
    [][(builder_call = "build" /\ ba2_err = "none" /\ builder_call' = "add_file")
          => files' = files]_vars

\* the archive type declared in the header of the archive on disk
DeclaredType == UnpackU32(Read(ba2_file.bytes, 8, 4))

\* C15: a BA2Reader exists only over an archive whose declared type is GNRL;
\* over any other type the constructor fails and no record is parsed.
C15_OnlyGeneralArchivesParsed ==
    /\ reader_ok => DeclaredType = GNRL
    /\ (ba2_file.exists /\ DeclaredType # GNRL) => reader_files = <<>>

\* the entries of the reader that extract has to write: those the filter
\* selects and whose bytes decode
Extractable(i) ==
    LET rec == reader_files[i].rec
    IN /\ extract_call.filter.set
            => Matches(reader_files[i].key, extract_call.filter, platform)
       /\ rec.packed_size > 0
            => ZValid(Read(ba2_file.bytes, rec.offset, rec.packed_size))

\* C16: extract never ends in the decompression error of one entry, and it
\* writes every entry that passes the filter and decodes.
C16_DecompressFailureIsolated ==
    (reader_ok /\ extract_call.done) =>
        /\ ba2_err # "zlib.error"
        /\ \A i \in 1..Len(reader_files) :
              Extractable(i) => \E e \in out_dir : e.path = reader_files[i].rec.path

\* C17: on a file that does not start with the BSA magic, extract and
\* list_contents raise ValueError; extract writes no file and logs nothing,
\* list_contents lists nothing.
C17_BadMagicRejected ==
    (bsa_file.exists /\ Read(bsa_file.bytes, 0, 4) # <<66, 83, 65, 0>>) =>
        /\ bsa_ret.called =>
              /\ bsa_ret.err = "ValueError"
              /\ bsa_ret.extracted_count = 0
              /\ bsa_out = {}
              /\ bsa_log = <<>>
        /\ bsa_list.called => (bsa_list.err = "ValueError" /\ bsa_list.files = <<>>)

\* both calls have been made on a file with another magic that holds two files
C17_Witness ==
    /\ bsa_file.exists
    /\ bsa_in.header.magic # BSA_MAGIC
    /\ Len(bsa_in.files) = 2
    /\ bsa_ret.called
    /\ bsa_list.called
    /\ bsa_ret.err = "ValueError"
    /\ bsa_list.err = "ValueError"

\* what extract does on the same archive with version 104 in its header
WithSupportedVersion ==
    Extract(FileOf(BsaBytes([bsa_in EXCEPT !.header.version = 104])),
            bsa_ret.filter, platform)

\* C18: on an archive with the BSA magic and a version other than 103, 104,
\* 105, extract logs one version warning and otherwise ends, writes and logs
\* exactly as it does on the same archive with a supported version.
C18_UnsupportedVersionWarnsOnly ==
    (bsa_file.exists /\ bsa_in.header.magic = BSA_MAGIC
        /\ bsa_in.header.version \notin {103, 104, 105} /\ bsa_ret.called) =>
        /\ bsa_ret.err = WithSupportedVersion.err
        /\ bsa_ret.extracted_count = WithSupportedVersion.extracted_count
        /\ bsa_out = WithSupportedVersion.out
        /\ bsa_log = <<[warning |-> "version", path |-> <<>>]>> \o WithSupportedVersion.log

\* both files of an archive of version 106 have been written, after the warning
C18_Witness ==
    /\ bsa_file.exists
    /\ bsa_in.header.version = 106
    /\ bsa_ret.called
    /\ bsa_ret.err = "none"
    /\ bsa_ret.extracted_count = 2
    /\ Cardinality(bsa_out) = 2
    /\ bsa_log = <<[warning |-> "version", path |-> <<>>]>>

\* the files of the directory that process_directory has to try
Attempted == SelectSeq(fuz_dir, LAMBDA e : e.name[Len(e.name)] = 122)

Decodable == SelectSeq(Attempted, LAMBDA e : e.kind \in {"lip", "nolip"})

AudioPathOf(e) == SubSeq(e.name, 1, Len(e.name) - 4) \o <<46, 120, 119, 109>>

ErrorsLogged == SelectSeq(fuz_dir_ret.log, LAMBDA l : l.level = "error")

\* C19: process_directory returns, in order, one audio path for each .fuz file
\* that decodes and none for the others; each of those audio files is written
\* with the file's audio, also after a file that failed, and each file that
\* failed is logged once.
C19_BatchContinuesPastFailures ==
    fuz_dir_ret.called =>
        /\ fuz_dir_ret.extracted_files = [i \in 1..Len(Decodable) |-> AudioPathOf(Decodable[i])]
        /\ \A i \in 1..Len(Decodable) :
              [path |-> AudioPathOf(Decodable[i]), data |-> Decodable[i].audio]
                  \in fuz_dir_out
        /\ \A i \in 1..Len(Attempted) :
              Attempted[i].kind \notin {"lip", "nolip"}
                  => \A e \in fuz_dir_out : e.path # AudioPathOf(Attempted[i])
        /\ Len(ErrorsLogged) = Len(Attempted) - Len(Decodable)
        /\ \A i \in 1..Len(Decodable) :
              Decodable[i].kind = "lip"
                  => [path |-> SubSeq(Decodable[i].name, 1, Len(Decodable[i].name) - 4)
                                   \o <<46, 108, 105, 112>>,
                      data |-> Decodable[i].lip] \in fuz_dir_out

\* the first .fuz file failed to decode and the second one was extracted
C19_Witness ==
    /\ fuz_dir_ret.called
    /\ Len(Attempted) = 2
    /\ Attempted[1].kind = "badmagic"
    /\ Attempted[2].kind = "lip"
    /\ Len(fuz_dir_ret.extracted_files) = 1
    /\ Len(ErrorsLogged) = 1

\* C20: the hash of a string is the hash of its lower-cased, backslash-separated
\* form, and two records whose archive paths differ only in letter case or in
\* the separator carry the same name_hash and the same dir_hash, each a
\* function of that form alone.
C20_HashIgnoresCaseAndSeparator ==
    /\ Len(added) = Len(files)
    /\ \A i \in 1..Len(files) :
          /\ _hash_string(added[i].path) = _hash_string(NormPath(added[i].path))
          /\ _hash_string(added[i].path) = _hash_string(Lower(added[i].path))
          /\ _hash_string(added[i].path) = _hash_string(ToSlash(added[i].path))
          /\ files[i].name_hash
                 = NewRecord(NormPath(added[i].path), <<>>, platform).name_hash
          /\ files[i].dir_hash
                 = NewRecord(NormPath(added[i].path), <<>>, platform).dir_hash
    /\ \A i, j \in 1..Len(files) :
          NormPath(added[i].path) = NormPath(added[j].path)
              => /\ files[i].name_hash = files[j].name_hash
                 /\ files[i].dir_hash = files[j].dir_hash
                 /\ _hash_string(added[i].path) = _hash_string(added[j].path)

\* "D/a.w" and "d\A.w" were both added and carry equal hashes
C20_Witness ==
    /\ Len(files) = 2
    /\ added[1].path = <<68, 47, 97, 46, 119>>
    /\ added[2].path = <<100, 92, 65, 46, 119>>
    /\ files[1].name_hash = files[2].name_hash
    /\ files[1].dir_hash = files[2].dir_hash
    /\ files[1].name_hash # [lo |-> 0, hi |-> 0]

\* bit b (a power of two) of a flags word
FlagBit(flags, b) == (flags \div b) % 2 = 1

\* C21: the header record of a generated plugin has the master bit set, the
\* light bit set exactly when the generator was created with as_esl, and no
\* other bit.
C21_HeaderFlags ==
    plugin_file.exists =>
        LET flags == RecordAt(plugin_file.bytes, 0).flags
        IN /\ RecordAt(plugin_file.bytes, 0).type = <<84, 69, 83, 52>>
           /\ FlagBit(flags, 1)
           /\ FlagBit(flags, 512) <=> as_esl
           /\ flags - 1 - (IF FlagBit(flags, 512) THEN 512 ELSE 0) = 0

\* a plugin generated outside the light profile, with records in it
C21_Witness ==
    /\ plugin_file.exists
    /\ ~as_esl
    /\ Len(gen_records) > 0
    /\ RecordAt(plugin_file.bytes, 0).flags = 1

\* the length an entry's data block takes in the archive, from its record
EncodedLength(r) == IF r.packed_size # 0 THEN r.packed_size ELSE r.unpacked_size

\* C22: in a built archive of n entries the first offset is 24 + 36 * n, each
\* later offset is the previous offset plus the previous encoded length, and the
\* name-table offset is the last offset plus the last encoded length; every
\* block lies inside the file between the record table and the name table.
C22_DataBlocksContiguous ==
    ba2_file.exists =>
        LET f == ba2_file.bytes
            n == UnpackU32(Read(f, 12, 4))
            names_at == UnpackU64(Read(f, 16, 8))
        IN /\ n = Len(built_from)
           /\ n > 0
           /\ ParseRecord(f, 0).offset = 24 + 36 * n
           /\ \A k \in 1..(n - 1) :
                 ParseRecord(f, k).offset
                     = ParseRecord(f, k - 1).offset + EncodedLength(ParseRecord(f, k - 1))
           /\ names_at = ParseRecord(f, n - 1).offset + EncodedLength(ParseRecord(f, n - 1))
           /\ \A k \in 0..(n - 1) :
                 /\ 24 + 36 * n <= ParseRecord(f, k).offset
                 /\ ParseRecord(f, k).offset + EncodedLength(ParseRecord(f, k)) <= names_at
           /\ names_at <= Len(f)

\* an archive of two entries, the first compressed and the second stored
C22_Witness ==
    /\ ba2_file.exists
    /\ Len(built_from) = 2
    /\ ParseRecord(ba2_file.bytes, 0).packed_size > 0
    /\ ParseRecord(ba2_file.bytes, 1).packed_size = 0
    /\ ParseRecord(ba2_file.bytes, 1).unpacked_size > 0
    /\ ParseRecord(ba2_file.bytes, 1).offset
           = 96 + ParseRecord(ba2_file.bytes, 0).packed_size

\* 0x811c9dc5 and 0x01000193 as four little-endian bytes
FnvSeedBytes == <<197, 157, 28, 129>>

FnvPrimeBytes == <<147, 1, 0, 1>>

\* x * 0x01000193 modulo 2^32 by long multiplication over bytes
FnvTimesPrime(x) ==
    LET p == FnvPrimeBytes
        c1 == x[1] * p[1]
        c2 == x[1] * p[2] + x[2] * p[1] + c1 \div 256
        c3 == x[1] * p[3] + x[2] * p[2] + x[3] * p[1] + c2 \div 256
        c4 == x[1] * p[4] + x[2] * p[3] + x[3] * p[2] + x[4] * p[1] + c3 \div 256
    IN <<c1 % 256, c2 % 256, c3 % 256, c4 % 256>>

\* XOR of two bytes, bit by bit
ByteXor(a, b) ==
    LET bit(x, k) == (x \div (2 ^ k)) % 2
        Sum[k \in 0..8] ==
            IF k = 8 THEN 0
            ELSE (IF bit(a, k) # bit(b, k) THEN 2 ^ k ELSE 0) + Sum[k + 1]
    IN Sum[0]

\* the accumulation from the seed: XOR the byte in, then multiply
RECURSIVE Fnv1a(_, _)
Fnv1a(h, bs) ==
    IF bs = <<>> THEN h
    ELSE Fnv1a(FnvTimesPrime(<<ByteXor(h[1], Head(bs)), h[2], h[3], h[4]>>), Tail(bs))

\* the stem and parent add_file hashes for the i-th entry
StemOf(i) == PathStem(ToBackslash(added[i].path), platform)

ParentOf(i) == PathParent(ToBackslash(added[i].path), platform)

\* C23 as stated: for every string the hash is the accumulation over the bytes
\* of the lower-cased string, and add_file stores it over the lower-cased stem
\* and the lower-cased parent path.
C23_HashIsAccumulationForEveryString ==
    /\ hash_call.called =>
          PackHash(hash_call.value) = Fnv1a(FnvSeedBytes, Utf8Encode(Lower(hash_call.s)))
    /\ \A i \in 1..Len(files) :
          /\ PackHash(files[i].name_hash) = Fnv1a(FnvSeedBytes, Utf8Encode(Lower(StemOf(i))))
          /\ PackHash(files[i].dir_hash) = Fnv1a(FnvSeedBytes, Utf8Encode(Lower(ParentOf(i))))

\* C23: the hash of the empty string is 0; the hash of any other string is the
\* accumulation from seed 0x811c9dc5 over the utf-8 bytes of the string
\* lower-cased and with "/" replaced by "\"; add_file stores it over the
\* lower-cased stem as name_hash and the lower-cased parent path as dir_hash.
C23_HashIsAccumulationUnlessEmpty ==
    /\ hash_call.called =>
          PackHash(hash_call.value)
              = IF hash_call.s = <<>> THEN <<0, 0, 0, 0>>
                ELSE Fnv1a(FnvSeedBytes, Utf8Encode(ToBackslash(Lower(hash_call.s))))
    /\ \A i \in 1..Len(files) :
          /\ StemOf(i) # <<>> /\ ParentOf(i) # <<>>
          /\ PackHash(files[i].name_hash) = Fnv1a(FnvSeedBytes, Utf8Encode(Lower(StemOf(i))))
          /\ PackHash(files[i].dir_hash) = Fnv1a(FnvSeedBytes, Utf8Encode(Lower(ParentOf(i))))

\* _hash_string("A") returned 0xe40c292c, the FNV-1a value of "a"
C23_Witness ==
    /\ hash_call.called
    /\ hash_call.s = <<65>>
    /\ PackHash(hash_call.value) = <<44, 41, 12, 228>>

\* an archive with the magic of the format and a file-name block
FileNamedArchive ==
    /\ bsa_file.exists
    /\ bsa_in.header.magic = BSA_MAGIC
    /\ HasFlag(bsa_in.header.flags, FLAG_FILE_NAMES)

\* the folder name and the file name packed for file i, joined as the
\* extractor joins them; no folder part without the folder-name flag
PackedFullPath(i) ==
    IF HasFlag(bsa_in.header.flags, FLAG_FOLDER_NAMES)
    THEN Cp1252Decode(FolderNameOf(FolderIndexOf(bsa_in, i))) \o <<Backslash>>
         \o Cp1252Decode(FileNameOf(i))
    ELSE Cp1252Decode(FileNameOf(i))

\* file i comes out of the archive: stored as its record says it is read
Readable(i) == EffectivelyCompressed(i) => bsa_in.files[i].stored = "deflated"

ReadData(i) == IF EffectivelyCompressed(i) THEN DataOf(i) ELSE PayloadOf(bsa_in, i)

Chosen(i, filter) == ~filter.set \/ Matches(PackedFullPath(i), filter, platform)

\* C24: with the file-name flag set, the k-th name of the file-name block goes
\* with the k-th file record in folder-then-file order: list_contents reports
\* the records' paths in that order, and extract writes the data of record k
\* at folder name / k-th file name, the folder being the one whose block held
\* the record (the file name alone when the archive carries no folder names).
C24_NamesFollowRecordOrder ==
    /\ (FileNamedArchive /\ bsa_list.called /\ bsa_list.err = "none") =>
          bsa_list.files = [i \in 1..Len(bsa_in.files) |-> PackedFullPath(i)]
    /\ (FileNamedArchive /\ bsa_ret.called /\ bsa_ret.err = "none") =>
          bsa_out = {[path |-> ToSlash(PackedFullPath(i)), data |-> ReadData(i)] :
                        i \in {k \in 1..Len(bsa_in.files) :
                                  Chosen(k, bsa_ret.filter) /\ Readable(k)}}

\* two files in two folders, each written under its own folder and name, and
\* the listing made as well
C24_Witness ==
    /\ FileNamedArchive
    /\ HasFlag(bsa_in.header.flags, FLAG_FOLDER_NAMES)
    /\ bsa_in.split
    /\ Len(bsa_in.files) = 2
    /\ bsa_ret.called /\ bsa_ret.err = "none" /\ ~bsa_ret.filter.set
    /\ bsa_list.called /\ Len(bsa_list.files) = 2
    /\ Cardinality(bsa_out) = 2
    /\ \E e \in bsa_out : e.path = <<115, Slash, 97, Dot, 119>> /\ e.data = DataOf(1)

\* what an unfiltered extraction wrote for file i
WrittenFor(i) == {e \in bsa_out : e.path = ExpectedPath(bsa_in, i)}

\* the record of file i: its size field without the toggle bit, its data offset
SizeOf(i) == Len(DataBlockOf(bsa_in, i))

\* what is written for file i when its data is taken to begin skip bytes after
\* the data offset and to be that much shorter than the record's size
WrittenFrom(i, skip) ==
    LET f == bsa_file.bytes
        at == DataOffsetOf(bsa_in, i) + skip
        size == SizeOf(i) - skip
        stream == Read(f, at + 4, size - 4)
    IN IF EffectivelyCompressed(i)
       THEN IF ZValid(stream)
            THEN {[path |-> ExpectedPath(bsa_in, i), data |-> ZDecompress(stream)]}
            ELSE {}
       ELSE {[path |-> ExpectedPath(bsa_in, i), data |-> Read(f, at, size)]}

UnfilteredExtraction ==
    NamedArchive /\ bsa_ret.called /\ bsa_ret.err = "none" /\ ~bsa_ret.filter.set

\* C25 as stated: the size prefix, or the raw bytes, are read at the data
\* offset, and the stream is the size - 4 bytes behind the prefix.
C25_DataReadAtRecordOffset ==
    UnfilteredExtraction =>
        \A i \in 1..Len(bsa_in.files) : WrittenFor(i) = WrittenFrom(i, 0)

\* the bytes the embedded name of file i takes in front of its data
EmbeddedSkip(i) ==
    IF HasFlag(bsa_in.header.flags, FLAG_EMBEDDED_NAMES)
    THEN 1 + bsa_file.bytes[DataOffsetOf(bsa_in, i) + 1]
    ELSE 0

\* C25: behind the embedded name, if the archive carries embedded names (one
\* length byte and the name, taken off the size), a compressed record's data
\* is a 4-byte decompressed size and a zlib stream of the remaining size - 4
\* bytes, whose decompression is written; an uncompressed record's remaining
\* bytes are written as they are.  A stream compressed from n bytes and
\* prefixed with n is written as n bytes.
C25_DataReadBehindEmbeddedName ==
    UnfilteredExtraction =>
        \A i \in 1..Len(bsa_in.files) :
            /\ WrittenFor(i) = WrittenFrom(i, EmbeddedSkip(i))
            /\ (EffectivelyCompressed(i) /\ bsa_in.files[i].stored = "deflated") =>
                  \E e \in WrittenFor(i) :
                      /\ e.data = DataOf(i)
                      /\ Len(e.data) = UnpackU32(Read(bsa_file.bytes,
                                              DataOffsetOf(bsa_in, i) + EmbeddedSkip(i), 4))
            /\ ~EffectivelyCompressed(i) =>
                  \E e \in WrittenFor(i) : Len(e.data) = SizeOf(i) - EmbeddedSkip(i)

\* from an archive with embedded names, a compressed file came out
\* decompressed and a stored file came out as stored
C25_Witness ==
    /\ UnfilteredExtraction
    /\ HasFlag(bsa_in.header.flags, FLAG_EMBEDDED_NAMES)
    /\ Len(bsa_in.files) = 2
    /\ EffectivelyCompressed(2) /\ bsa_in.files[2].stored = "deflated"
    /\ ~EffectivelyCompressed(1) /\ bsa_in.files[1].stored = "raw"
    /\ WrittenFor(1) = {[path |-> ExpectedPath(bsa_in, 1), data |-> DataOf(1)]}
    /\ WrittenFor(2) = {[path |-> ExpectedPath(bsa_in, 2), data |-> DataOf(2)]}
    /\ Len(ZCompress(DataOf(2))) < Len(DataOf(2))

\* the records BA2Reader.files holds under key
FoundUnder(key) ==
    {reader_files[i].rec : i \in {j \in 1..Len(reader_files) : reader_files[j].key = key}}

\* C26: the k-th path of the name table belongs to the k-th record: looking
\* the reader's mapping up by a stored path, lower-cased, gives one record,
\* which carries the path, offset, sizes and hashes found at one and the same
\* index (the last index holding that lower-cased path); the keys are the
\* lower-cased stored paths and nothing else.
C26_NamesAttachedByIndex ==
    reader_ok =>
        LET f == ba2_file.bytes
            n == UnpackU32(Read(f, 12, 4))
            names == ReadNames(f, UnpackU64(Read(f, 16, 8)), n)
            path(k) == Utf8Decode(names[k])
            last(k) == CHOOSE j \in k..n :
                           /\ Lower(path(j)) = Lower(path(k))
                           /\ \A m \in (j + 1)..n : Lower(path(m)) # Lower(path(k))
        IN /\ Len(names) = n
           /\ {reader_files[i].key : i \in 1..Len(reader_files)}
                  = {Lower(path(k)) : k \in 1..n}
           /\ \A k \in 1..n :
                 FoundUnder(Lower(path(k)))
                     = {[ParseRecord(f, last(k) - 1) EXCEPT !.path = path(last(k))]}
           /\ \A k \in 1..n :
                 path(k) = ToBackslash(built_from[k].path)

\* a reader over two entries laid out at different offsets, each under a path
\* that differs from its key by case
C26_Witness ==
    /\ reader_ok
    /\ Len(built_from) = 2
    /\ Len(reader_files) = 2
    /\ reader_files[1].key # reader_files[1].rec.path
    /\ reader_files[2].key # reader_files[2].rec.path
    /\ reader_files[1].rec.offset = 24 + 36 * 2
    /\ reader_files[2].rec.offset > 24 + 36 * 2

\* the archive on disk holds exactly the entries of adds, in order
ArchiveHolds(adds) ==
    LET f == ba2_file.bytes
        n == UnpackU32(Read(f, 12, 4))
        names == ReadNames(f, UnpackU64(Read(f, 16, 8)), n)
    IN /\ n = Len(adds)
       /\ Len(names) = n
       /\ \A k \in 1..n :
             LET r == ParseRecord(f, k - 1)
                 block == DataBlock(NewRecord(adds[k].path, adds[k].data, platform), compress)
             IN /\ names[k] = Utf8Encode(ToBackslash(adds[k].path))
                /\ r.unpacked_size = Len(adds[k].data)
                /\ Read(f, r.offset, Len(block)) = block

\* C27: after clear the entry list is empty; a build that follows clear at once
\* fails with the empty-archive error and writes nothing; and an archive built
\* holds exactly the entries added since the last clear, in order.
C27_ClearResetsBuilder ==
    /\ [](builder_call = "clear" => files = <<>>)
    /\ [][(builder_call = "clear" /\ builder_call' = "build")
              => (ba2_err' = EmptyArchiveError /\ ba2_file' = ba2_file)]_vars
    /\ []((builder_call = "build" /\ ba2_err = "none") => ArchiveHolds(added))

\* an archive of two entries was built, the builder was cleared, and the build
\* after it failed for want of entries, leaving that archive in place
C27_Witness ==
    /\ builder_call = "build"
    /\ ba2_err = EmptyArchiveError
    /\ files = <<>>
    /\ ba2_file.exists
    /\ Len(built_from) = 2

\* what build has to leave alone in an entry
Kept(r) == [path |-> r.path, data |-> r.data, name_hash |-> r.name_hash,
            dir_hash |-> r.dir_hash, ext |-> r.ext, unpacked_size |-> r.unpacked_size]

\* C28: build leaves every entry's path, data and hashes and the order of the
\* entries as they were; a build that follows a successful build directly
\* writes the same bytes, the offsets and packed sizes the first build stored
\* in the entries being computed afresh to the same values.
C28_RebuildWritesSameBytes ==
    [][(builder_call' = "build" /\ ba2_err' = "none")
          => /\ Len(files') = Len(files)
             /\ \A i \in 1..Len(files) : Kept(files'[i]) = Kept(files[i])
             /\ ba2_file'.exists
             /\ (builder_call = "build" /\ ba2_err = "none")
                   => /\ ba2_file' = ba2_file
                      /\ files' = files]_vars

\* a second build in a row over two entries, the first stored compressed and
\* the second, behind it, stored as it is
C28_Witness ==
    /\ builder_call = "build"
    /\ prev_build.exists
    /\ prev_build.bytes = ba2_file.bytes
    /\ Len(files) = 2
    /\ files[1].packed_size > 0
    /\ files[2].packed_size = 0
    /\ files[2].offset = 96 + files[1].packed_size

\* the records an extraction with pattern "*.w" passes over: those whose file
\* name does not end in ".w", and all of them when the archive has no file names
FilteredOut ==
    {i \in 1..Len(bsa_in.files) :
        /\ bsa_ret.filter.set
        /\ ~(/\ HasFlag(bsa_in.header.flags, FLAG_FILE_NAMES)
             /\ SubSeq(FileNameOf(i), Len(FileNameOf(i)) - 1, Len(FileNameOf(i)))
                    = <<Dot, 119>>)}

\* the records read as compressed whose data is no stream compressed from them
FailedRecords ==
    {i \in 1..Len(bsa_in.files) \ FilteredOut :
        EffectivelyCompressed(i) /\ bsa_in.files[i].stored # "deflated"}

WrittenRecords == (1..Len(bsa_in.files) \ FilteredOut) \ FailedRecords

\* C29: when extract returns normally every record is passed over by the
\* filter, or skipped with one logged decompression failure, or written, and
\* the count returned is the number of records written: count + filtered out +
\* failed = records in the folder tables.  With file names in the archive the
\* written records are as many files in the output.
C29_EveryRecordAccountedFor ==
    (bsa_file.exists /\ bsa_in.header.magic = BSA_MAGIC /\ bsa_ret.called
         /\ bsa_ret.err = "none") =>
        /\ bsa_ret.extracted_count = Cardinality(WrittenRecords)
        /\ Len(DecompressWarnings) = Cardinality(FailedRecords)
        /\ bsa_ret.extracted_count + Cardinality(FilteredOut) + Len(DecompressWarnings)
               = Len(bsa_in.files)
        /\ HasFlag(bsa_in.header.flags, FLAG_FILE_NAMES) =>
              /\ Cardinality(bsa_out) = bsa_ret.extracted_count
              /\ \A i \in WrittenRecords :
                    \E e \in bsa_out : e.path = ToSlash(PackedFullPath(i))
              /\ \A i \in FailedRecords \cup FilteredOut :
                    \A e \in bsa_out : e.path # ToSlash(PackedFullPath(i))

\* of two records one was passed over by the filter and the other was written
C29_Witness ==
    /\ bsa_file.exists /\ bsa_in.header.magic = BSA_MAGIC
    /\ bsa_ret.called /\ bsa_ret.err = "none"
    /\ Len(bsa_in.files) = 2
    /\ FilteredOut = {2}
    /\ WrittenRecords = {1}
    /\ EffectivelyCompressed(1)
    /\ bsa_ret.extracted_count = 1
    /\ Cardinality(bsa_out) = 1

\* C30: a step that is no add_* call, that is a generate, leaves the record
\* list and the form ID counter as they are, and rewrites the same bytes when
\* no add_* call was made since the last generate; the add_* calls made after
\* a generate take the next form IDs in sequence, none of them one that the
\* written file holds or lies below the next-object-ID written in its header.
C30_GenerateLeavesWriterAlone ==
    /\ [][Len(calls') = Len(calls)
             => /\ records' = records
                /\ next_form_id' = next_form_id
                /\ (plugin_file.exists /\ gen_calls = Len(calls))
                      => plugin_file' = plugin_file]_vars
    /\ [](plugin_file.exists =>
            \A k \in (gen_calls + 1)..Len(calls) :
                /\ calls[k].form_id = 2048 + k - 1
                /\ calls[k].form_id >= UnpackU32(Read(HedrOf(plugin_file.bytes), 8, 4))
                /\ \A i \in 1..Len(gen_records) :
                      gen_records[i].form_id # calls[k].form_id)

\* a record added after a generate, with the form ID following those written
C30_Witness ==
    /\ plugin_file.exists
    /\ gen_calls = 1
    /\ Len(calls) = 2
    /\ Len(gen_records) = 1
    /\ Len(records) = 2
    /\ gen_records[1].form_id = 2048
    /\ records[2].form_id = 2049
    /\ next_form_id = 2050

=============================================================================
